---- MODULE Spec2Model ----
(***************************************************************************)
(* ShiroInk: the batch orchestrator (main.process_images and               *)
(* file_processor), the ErrorTracker, and the image pipeline with its      *)
(* resize insertion.                                                       *)
(*                                                                         *)
(* Three specifications share the variables below:                         *)
(*   Spec      one run of process_images over a source tree, with the      *)
(*             worker pool of process_images_in_directory                  *)
(*   SpecSeq   a single thread calling ErrorTracker.add_error              *)
(*   SpecPipe  image_pipeline.process on one image                         *)
(***************************************************************************)
EXTENDS Integers, Sequences, FiniteSets, TLC

(***************************************************************************)
(* Bounds of the model.                                                    *)
(***************************************************************************)
\* largest config.max_retries a run is started with
MaxRetries == 1
\* largest config.workers a run is started with
MaxWorkers == 2
\* number of add_error calls of a sequential session
MaxCalls == 3
MaxSteps == 2

VARIABLES
    \* ---- a run of process_images -------------------------------------
    cfg,        \* ProcessingConfig: continue_on_error, max_retries, workers, dry_run
    src_ok,     \* config.src_dir.is_dir()
    items,      \* the WorkItems listed from src_dir, in iteration order
    idx,        \* position of the main thread's current WorkItem (1-based)
    mpc,        \* where the main thread is
    cur,        \* directory name process_images_in_directory is working on
    tasks,      \* the futures of the current directory: file -> task state
    srcDirs,    \* directories under src_dir: name -> [exists, files]
    destDirs,   \* directories under dest_dir: name -> [exists, files]
    archives,   \* dest_dir/<name>.cbz: name -> [state, members]
    tracker,    \* the run's ErrorTracker
    run,        \* how process_images ended: [state, code, exc]
    hist,       \* history of the run (not program state)
    \* ---- image_pipeline.process on one image -------------------------
    pimg        \* state of one process() call
vars == <<cfg, src_ok, items, idx, mpc, cur, tasks, srcDirs, destDirs,
          archives, tracker, run, hist, pimg>>
runVars == <<cfg, src_ok, items, idx, mpc, cur, tasks, srcDirs, destDirs,
             archives, run, hist>>

(***************************************************************************)
(* Python helpers.                                                         *)
(***************************************************************************)
\* dict.get(key, 0)
DictGet(d, k) == IF k \in DOMAIN d THEN d[k] ELSE 0
\* d[key] = value
DictSet(d, k, v) == [x \in (DOMAIN d) \cup {k} |-> IF x = k THEN v ELSE d[x]]
EmptyDict == [x \in {} |-> 0]
\* range(n) as a set
Range(n) == 0 .. (n - 1)
SeqToSet(s) == { s[i] : i \in 1 .. Len(s) }

(***************************************************************************)
(* error_handler.py: ErrorSeverity, ErrorRecord, ErrorTracker.             *)
(***************************************************************************)
WARNING == "warning"
ERROR == "error"
CRITICAL == "critical"
ErrorSeverity == {WARNING, ERROR, CRITICAL}

\* "no path" (None); every real path is a non-empty tuple
NoPath == <<>>
\* "no step" (None or the empty string)
NoStep == ""

ErrorRecord(path, severity, step) ==
    [path |-> path, severity |-> severity, step |-> step]

\* ErrorTracker.__init__
ErrorTracker == [errors |-> <<>>, file_errors |-> EmptyDict, step_errors |-> EmptyDict]

\* the statements of add_error, one at a time
\* self.errors.append(record)
ae_append(tr, rec) == [tr EXCEPT !.errors = Append(@, rec)]
\* self._file_errors.get(path, 0)
ae_file_get(tr, path) == DictGet(tr.file_errors, path)
\* self._file_errors[path] = <read value> + 1
ae_file_set(tr, path, got) == [tr EXCEPT !.file_errors = DictSet(@, path, got + 1)]
\* self._step_errors.get(step, 0)
ae_step_get(tr, step) == DictGet(tr.step_errors, step)
\* a plausible slip: the counter is set instead of incremented
ae_step_set_no_incr(tr, step, got) == [tr EXCEPT !.step_errors = DictSet(@, step, 1)]
\* self._step_errors[step] = <read value> + 1
ae_step_set(tr, step, got) == [tr EXCEPT !.step_errors = DictSet(@, step, got + 1)]

\* add_error run by one thread with no other thread in between
add_error(tr, path, severity, step) ==
    LET t1 == ae_append(tr, ErrorRecord(path, severity, step))
        t2 == IF path # NoPath THEN ae_file_set(t1, path, ae_file_get(t1, path)) ELSE t1
        t3 == IF step # NoStep THEN ae_step_set(t2, step, ae_step_get(t2, step)) ELSE t2
    IN t3

get_errors(tr, severity) == SelectSeq(tr.errors, LAMBDA e : e.severity = severity)
has_errors(tr) == Len(tr.errors) > 0
has_critical_errors(tr) == \E i \in 1 .. Len(tr.errors) : tr.errors[i].severity = CRITICAL
get_summary(tr) ==
    [total_errors |-> Len(tr.errors),
     warnings |-> Len(get_errors(tr, WARNING)),
     errors |-> Len(get_errors(tr, ERROR)),
     critical |-> Len(get_errors(tr, CRITICAL)),
     files_with_errors |-> Cardinality(DOMAIN tr.file_errors),
     errors_by_step |-> tr.step_errors]


(***************************************************************************)
(* The source tree.  A file is [stem, ext, spread]: Path.stem as a         *)
(* sequence of name parts (so that stem + "_page_1" is Append), Path.suffix *)
(* and whether the picture is wider than high.                             *)
(***************************************************************************)
\* file_processor.IMAGE_EXTENSIONS
IMAGE_EXTENSIONS == {".jpg", ".jpeg", ".png", ".gif", ".webp"}

FileA == [stem |-> <<"a">>, ext |-> ".jpg", spread |-> FALSE]
FileB == [stem |-> <<"a">>, ext |-> ".png", spread |-> FALSE]
FileS == [stem |-> <<"s">>, ext |-> ".jpg", spread |-> TRUE]
\* a file that is not an image
FileN == [stem |-> <<"n">>, ext |-> ".txt", spread |-> FALSE]
\* an image whose suffix is written in capitals
FileU == [stem |-> <<"u">>, ext |-> ".JPG", spread |-> FALSE]
FileUniverse == {FileA, FileB, FileS, FileN, FileU}
Names == {"v1", "v2"}
Kinds == {"dir", "cbz"}

Item(kind, name, files) == [kind |-> kind, name |-> name, files |-> files]
\* the trees a run is started on: an empty src_dir, one WorkItem holding any
\* of the file sets below, two WorkItems of one file each, or a directory
\* v1 next to an archive v1.cbz, in either order of iterdir()
OneItemFiles ==
    {{}, {FileA}, {FileS}, {FileA, FileB}, {FileA, FileS}, {FileA, FileB, FileS},
     {FileA, FileB, FileN}, {FileU}}
Trees ==
    {<<>>}
    \cup { <<Item(k, "v1", fs)>> : k \in Kinds, fs \in OneItemFiles }
    \cup { <<Item(k1, "v1", {FileA}), Item(k2, "v2", fs)>> :
              k1 \in Kinds, k2 \in Kinds, fs \in {{FileA}, {FileS}} }
    \cup { <<Item("dir", "v1", {FileB}), Item("cbz", "v1", {FileA})>>,
           <<Item("cbz", "v1", {FileA}), Item("dir", "v1", {FileB})>> }

\* paths, as tuples of their parts
DirPath(n) == <<"src", n>>
SrcCbz(n) == <<"src", n, ".cbz">>
DestCbz(n) == <<"dest", n, ".cbz">>
FilePath(n, f) == <<"src", n, f.stem, f.ext>>
\* the name of a file inside its directory
Leaf(stem, ext) == <<stem, ext>>

NoDir == [exists |-> FALSE, files |-> EmptyDict]
NoSrcDir == [exists |-> FALSE, files |-> {}]
NoArchive == [state |-> "none", members |-> EmptyDict]

(***************************************************************************)
(* config.py: ProcessingConfig as far as a run reads it.                   *)
(***************************************************************************)
\* str.lower() on the letters of a string
UpperCase == "ABCDEFGHIJKLMNOPQRSTUVWXYZ"
LowerCase == "abcdefghijklmnopqrstuvwxyz"
LowerChar(c) ==
    IF \E i \in 1 .. Len(UpperCase) : SubSeq(UpperCase, i, i) = c
    THEN LET i == CHOOSE i \in 1 .. Len(UpperCase) : SubSeq(UpperCase, i, i) = c
         IN SubSeq(LowerCase, i, i)
    ELSE c
RECURSIVE lower(_)
lower(str) ==
    IF Len(str) = 0 THEN ""
    ELSE LowerChar(SubSeq(str, 1, 1)) \o lower(SubSeq(str, 2, Len(str)))

\* the keys of the presets dict of PipelinePresets.get_preset
PresetNames ==
    {"kindle", "tablet", "print", "high_quality", "minimal", "kobo", "tolino",
     "pocketbook", "pocketbook_color", "ipad", "eink", "scanned_manga",
     "scanned_manga_advanced"}

\* presets.py 213-215: `if name.lower() not in presets: raise ValueError(...)`
UnknownPreset(name) == lower(name) \notin PresetNames
\* the values of pipeline_preset a run is started with: the default preset
\* written with a capital, and a name that is no preset (__post_init__ does
\* not look at pipeline_preset); custom_pipeline is None
PresetInputs == {"Kindle", "comic"}
Configs ==
    [continue_on_error : BOOLEAN, max_retries : 0 .. MaxRetries,
     workers : 1 .. MaxWorkers, dry_run : BOOLEAN, pipeline_preset : PresetInputs]

(***************************************************************************)
(* One future of the pool: __process_file on one file.                     *)
(*   pc       queued, try, page2, ae_append, ae_fget, ae_fset, ae_sget,    *)
(*            ae_sset, done                                                *)
(*   attempt  the loop variable of the retry loop                          *)
(*   calls    how many times process() was called                          *)
(*   ok       a call of process() returned normally                        *)
(*   got      the counter value add_error last read                        *)
(*   raised   the future ended with ImageProcessingError                   *)
(***************************************************************************)
\* starts counts the times a worker has taken the task up
NewTask == [pc |-> "queued", attempt |-> 0, calls |-> 0, ok |-> FALSE,
            got |-> 0, raised |-> FALSE, starts |-> 0]
Running == { f \in DOMAIN tasks : tasks[f].pc \notin {"queued", "done"} }
\* as_completed(futures) has yielded every future, and the executor's
\* with-block ends: every task has finished
AllDone_first == \E f \in DOMAIN tasks : tasks[f].pc = "done"
AllDone == \A f \in DOMAIN tasks : tasks[f].pc = "done"
\* ThreadPoolExecutor(max_workers=config.workers): a worker is free
IdleWorker_always == TRUE
IdleWorker == Cardinality(Running) < cfg.workers

NoHist == [extractStarted |-> {}, envFail |-> {}, okFiles |-> {}, halfSaved |-> {},
           archOutcome |-> [n \in Names |-> "none"], entered |-> {}, calls |-> 0]

NoImage == [pc |-> "off"]

\* the directories under src_dir before the run
SrcDirsOf(its) ==
    [n \in Names |->
        IF \E i \in 1 .. Len(its) : its[i].name = n /\ its[i].kind = "dir"
        THEN [exists |-> TRUE,
              files |-> its[CHOOSE i \in 1 .. Len(its) :
                                   its[i].name = n /\ its[i].kind = "dir"].files]
        ELSE NoSrcDir]

RunInit ==
    /\ cfg \in Configs
    /\ src_ok \in BOOLEAN
    /\ items \in Trees
    /\ idx = 0
    /\ mpc = "begin"
    /\ cur = ""
    /\ tasks = [f \in {} |-> NewTask]
    /\ srcDirs = SrcDirsOf(items)
    /\ destDirs = [n \in Names |-> NoDir]
    /\ archives = [n \in Names |-> NoArchive]
    /\ run = [state |-> "running", code |-> -1, exc |-> ""]
    /\ hist = NoHist

Init ==
    /\ RunInit
    /\ tracker = ErrorTracker
    /\ pimg = NoImage


(***************************************************************************)
(* image_pipeline.process as the orchestrator sees it: the files one call  *)
(* has written when it ends.  outcome is "ok", "fail" (nothing written:    *)
(* the image cannot be opened, or a step or the save of the first page     *)
(* raises) or "fail_page2" (a spread whose first page was saved before the *)
(* call raised).                                                           *)
(***************************************************************************)
PNG == ".png"
\* output_path.with_stem(output_path.stem + f"_page_{i+1}")
PageLeaf(stem, page) == Leaf(Append(stem, IF page = 1 THEN "_page_1" ELSE "_page_2"), PNG)
\* dest_path = config.dest_dir / relative_path.with_suffix(".png")
DestLeaf(f) == Leaf(f.stem, PNG)
Written(f, outcome) ==
    IF f.spread
    THEN CASE outcome = "ok" -> {PageLeaf(f.stem, 1), PageLeaf(f.stem, 2)}
           [] outcome = "fail_page2" -> {PageLeaf(f.stem, 1)}
           [] OTHER -> {}
    ELSE IF outcome = "ok" THEN {DestLeaf(f)} ELSE {}
\* the directory after a call of process() wrote `leaves` from source `from`
SaveAll(dir, leaves, from) ==
    [dir EXCEPT !.files = [x \in (DOMAIN dir.files) \cup leaves |->
                             IF x \in leaves THEN from ELSE dir.files[x]]]

(***************************************************************************)
(* __process_file (file_processor.py 125-190), run by a pool thread.       *)
(***************************************************************************)
\* the slip `if attempt <= config.max_retries: continue`
AfterAttempt_retry_last(attempt, ok) ==
    IF ok THEN "break"
    ELSE IF attempt <= cfg.max_retries
         THEN (IF attempt + 1 \in Range(cfg.max_retries + 1) THEN "continue" ELSE "exhausted")
         ELSE "raise"
\* what the retry loop does after attempt number `attempt` ended
AfterAttempt(attempt, ok) ==
    IF ok THEN "break"
    ELSE IF attempt < cfg.max_retries
         THEN (IF attempt + 1 \in Range(cfg.max_retries + 1) THEN "continue" ELSE "exhausted")
         ELSE "raise"

\* `if not config.dry_run:` (file_processor.py 37, 91, 148); the slip of
\* leaving the test out
config_dry_run_ignored == FALSE
config_dry_run == cfg.dry_run

\* a pool thread takes the future; lines 139-150
StartFile(f) ==
    /\ mpc = "pool"
    /\ f \in DOMAIN tasks
    /\ tasks[f].pc = "queued"
    /\ IdleWorker
    /\ IF config_dry_run
       THEN /\ tasks' = [tasks EXCEPT ![f].pc = "done", ![f].starts = @ + 1]
            /\ UNCHANGED <<destDirs, hist>>
       ELSE \* dest_path.parent.mkdir(parents=True, exist_ok=True): the
            \* directory is there afterwards, or mkdir raises inside the try
            \* and the handler at lines 175-190 takes over with no call made;
            \* then pipeline = config.get_pipeline(), which raises ValueError
            \* inside the same try for a pipeline_preset that is no preset
            \E made \in BOOLEAN :
               IF ~made
               THEN /\ tasks' = [tasks EXCEPT ![f].pc = "ae_append", ![f].starts = @ + 1]
                    /\ hist' = [hist EXCEPT !.envFail = @ \cup {"mkdir_fail"},
                                            !.calls = @ + 1]
                    /\ UNCHANGED destDirs
               ELSE IF UnknownPreset(cfg.pipeline_preset)
               THEN /\ tasks' = [tasks EXCEPT ![f].pc = "ae_append", ![f].starts = @ + 1]
                    /\ destDirs' = [destDirs EXCEPT ![cur].exists = TRUE]
                    /\ hist' = [hist EXCEPT !.envFail = @ \cup {"get_pipeline_fail"},
                                            !.calls = @ + 1]
               ELSE /\ tasks' = [tasks EXCEPT ![f].pc = "try", ![f].starts = @ + 1]
                    /\ destDirs' = [destDirs EXCEPT ![cur].exists = TRUE]
                    /\ UNCHANGED hist
    /\ UNCHANGED <<cfg, src_ok, items, idx, mpc, cur, srcDirs, archives, tracker,
                   run, pimg>>

\* how a call of process() that ended with `outcome` leaves the retry loop;
\* t is the task with the call counted
EndAttempt(f, t, outcome) ==
    LET after == AfterAttempt(t.attempt, outcome = "ok")
    IN /\ tasks' = [tasks EXCEPT ![f] =
             [t EXCEPT !.ok = (outcome = "ok"),
                       !.attempt = IF after = "continue" THEN @ + 1 ELSE @,
                       !.pc = CASE after = "continue" -> "try"
                                [] after = "raise" -> "ae_append"
                                [] OTHER -> "done"]]
       /\ hist' = [hist EXCEPT
             !.okFiles = IF outcome = "ok" THEN @ \cup {FilePath(cur, f)} ELSE @,
             !.halfSaved = IF outcome = "fail_page2" THEN @ \cup {FilePath(cur, f)} ELSE @,
             !.calls = IF after = "raise" THEN @ + 1 ELSE @]

\* one pass of the retry loop; lines 152-173: process() is called and either
\* ends (a single page saved, or nothing saved) or has saved page 1 of a
\* spread and goes on with page 2
ProcessAttempt(f) ==
    /\ mpc = "pool"
    /\ f \in DOMAIN tasks
    /\ tasks[f].pc = "try"
    /\ LET t == [tasks[f] EXCEPT !.calls = @ + 1]
       IN \/ \E outcome \in {"ok", "fail"} :
               /\ outcome = "ok" => ~f.spread
               /\ destDirs' = [destDirs EXCEPT
                                 ![cur] = SaveAll(@, Written(f, outcome), FilePath(cur, f))]
               /\ EndAttempt(f, t, outcome)
          \/ /\ f.spread
             /\ destDirs' = [destDirs EXCEPT
                               ![cur] = SaveAll(@, {PageLeaf(f.stem, 1)}, FilePath(cur, f))]
             /\ tasks' = [tasks EXCEPT ![f] = [t EXCEPT !.pc = "page2"]]
             /\ hist' = hist
    /\ UNCHANGED <<cfg, src_ok, items, idx, mpc, cur, srcDirs, archives, tracker,
                   run, pimg>>

\* image_pipeline/__init__.py 67-80, second pass of the loop over the pages:
\* the pipeline runs on page 2 and the page is saved, or the call raises
ProcessPage2(f) ==
    /\ mpc = "pool"
    /\ f \in DOMAIN tasks
    /\ tasks[f].pc = "page2"
    /\ \E outcome \in {"ok", "fail_page2"} :
         /\ destDirs' = [destDirs EXCEPT
                           ![cur] = IF outcome = "ok"
                                    THEN SaveAll(@, {PageLeaf(f.stem, 2)}, FilePath(cur, f))
                                    ELSE @]
         /\ EndAttempt(f, tasks[f], outcome)
    /\ UNCHANGED <<cfg, src_ok, items, idx, mpc, cur, srcDirs, archives, tracker,
                   run, pimg>>

\* the handler at lines 175-190: error_tracker.add_error(...), statement by
\* statement, then `raise error from exc` unless continue_on_error
IMAGE_PROCESSING == "image_processing"
AeAppend(f) ==
    /\ f \in DOMAIN tasks
    /\ tasks[f].pc = "ae_append"
    /\ tracker' = ae_append(tracker, ErrorRecord(FilePath(cur, f), ERROR, IMAGE_PROCESSING))
    /\ tasks' = [tasks EXCEPT ![f].pc = "ae_fget"]
    /\ UNCHANGED <<cfg, src_ok, items, idx, mpc, cur, srcDirs, destDirs, archives,
                   run, hist, pimg>>
AeFileGet(f) ==
    /\ f \in DOMAIN tasks
    /\ tasks[f].pc = "ae_fget"
    /\ tasks' = [tasks EXCEPT ![f].pc = "ae_fset",
                              ![f].got = ae_file_get(tracker, FilePath(cur, f))]
    /\ UNCHANGED <<cfg, src_ok, items, idx, mpc, cur, srcDirs, destDirs, archives,
                   tracker, run, hist, pimg>>
AeFileSet(f) ==
    /\ f \in DOMAIN tasks
    /\ tasks[f].pc = "ae_fset"
    /\ tracker' = ae_file_set(tracker, FilePath(cur, f), tasks[f].got)
    /\ tasks' = [tasks EXCEPT ![f].pc = "ae_sget"]
    /\ UNCHANGED <<cfg, src_ok, items, idx, mpc, cur, srcDirs, destDirs, archives,
                   run, hist, pimg>>
AeStepGet(f) ==
    /\ f \in DOMAIN tasks
    /\ tasks[f].pc = "ae_sget"
    /\ tasks' = [tasks EXCEPT ![f].pc = "ae_sset",
                              ![f].got = ae_step_get(tracker, IMAGE_PROCESSING)]
    /\ UNCHANGED <<cfg, src_ok, items, idx, mpc, cur, srcDirs, destDirs, archives,
                   tracker, run, hist, pimg>>
AeStepSet(f) ==
    /\ f \in DOMAIN tasks
    /\ tasks[f].pc = "ae_sset"
    /\ tracker' = ae_step_set(tracker, IMAGE_PROCESSING, tasks[f].got)
    /\ tasks' = [tasks EXCEPT ![f].pc = "done",
                              ![f].raised = ~cfg.continue_on_error]
    /\ UNCHANGED <<cfg, src_ok, items, idx, mpc, cur, srcDirs, destDirs, archives,
                   run, hist, pimg>>


(***************************************************************************)
(* The except clauses an exception passes on its way up; each gives the    *)
(* tracker after its add_error and the exception that leaves it ("" when    *)
(* the clause swallows it).                                                *)
(***************************************************************************)
InCbz == idx \in 1 .. Len(items) /\ items[idx].kind = "cbz"
ItemName == items[idx].name

\* extract_and_process_cbz, lines 112-122
HandleCbz(tr) ==
    [tracker |-> add_error(tr, SrcCbz(ItemName), ERROR, "cbz_extraction"),
     exc |-> IF cfg.continue_on_error THEN "" ELSE "CBZExtractionError"]
\* process_images_in_directory, lines 252-261
HandleDir(tr, e) ==
    LET t == add_error(tr, DirPath(cur), CRITICAL, "directory_processing")
    IN IF cfg.continue_on_error THEN [tracker |-> t, exc |-> ""]
       ELSE IF InCbz THEN HandleCbz(t)
       ELSE [tracker |-> t, exc |-> e]
\* __create_cbz_archive, lines 59-69
HandleArchive(tr) ==
    LET t == add_error(tr, DestCbz(cur), ERROR, "cbz_creation")
    IN IF cfg.continue_on_error THEN [tracker |-> t, exc |-> ""]
       ELSE HandleDir(t, "CBZCreationError")

(***************************************************************************)
(* __create_cbz_archive._create_archive, lines 37-55, on directory n of    *)
(* dest_dir.  outcome is what the file system does: "ok", "open_fail"      *)
(* (ZipFile cannot create the archive) or "write_fail" (cbz.write raises   *)
(* after the members `written`).  The result is the directory, the archive *)
(* and "" or the failure that raised.                                      *)
(***************************************************************************)
Restrict(d, keys) == [x \in keys |-> d[x]]
\* the slip of removing the tree in a `finally`
create_archive_always_rmtree(n, outcome, written) ==
    LET d == destDirs[n]
    IN CASE outcome = "open_fail" ->
              [dest |-> NoDir, arch |-> archives[n], failed |-> "open_fail"]
         [] outcome = "write_fail" ->
              [dest |-> NoDir,
               arch |-> [state |-> "partial", members |-> Restrict(d.files, written)],
               failed |-> "write_fail"]
         [] OTHER ->
              [dest |-> NoDir,
               arch |-> [state |-> "complete", members |-> d.files],
               failed |-> IF d.exists THEN "" ELSE "rmtree_fail"]
create_archive(n, outcome, written) ==
    LET d == destDirs[n]
    IN CASE outcome = "open_fail" ->
              [dest |-> d, arch |-> archives[n], failed |-> "open_fail"]
         [] outcome = "write_fail" ->
              [dest |-> d,
               arch |-> [state |-> "partial", members |-> Restrict(d.files, written)],
               failed |-> "write_fail"]
         [] OTHER ->
              \* the archive is closed, then shutil.rmtree(directory), which
              \* raises FileNotFoundError when no file made the directory
              [dest |-> NoDir,
               arch |-> [state |-> "complete", members |-> d.files],
               failed |-> IF d.exists THEN "" ELSE "rmtree_fail"]
\* the outcomes the file system can produce for directory n
ArchiveChoices(n) ==
    {<<"ok", {}>>, <<"open_fail", {}>>}
    \cup { <<"write_fail", w>> : w \in (SUBSET DOMAIN destDirs[n].files) \ {DOMAIN destDirs[n].files} }

(***************************************************************************)
(* The main thread: process_images (main.py 9-139) and what it calls.      *)
(***************************************************************************)
NoTasks == [f \in {} |-> NewTask]
Raised(e) == [state |-> "raised", code |-> -1, exc |-> e]
Returned(c) == [state |-> "returned", code |-> c, exc |-> ""]

\* how the handling of the current WorkItem ends: r is [tracker, exc] after
\* the except clauses, src the directories under src_dir at that point
Leave(r, src) ==
    /\ tracker' = r.tracker
    /\ srcDirs' = src
    /\ cur' = ""
    /\ tasks' = NoTasks
    /\ IF r.exc = ""
       THEN /\ idx' = idx + 1      \* reporter.advance_task(task_id); next item
            /\ mpc' = "next"
            /\ run' = run
       ELSE /\ idx' = idx          \* the exception leaves process_images
            /\ mpc' = "end"
            /\ run' = Raised(r.exc)
\* after process_images_in_directory ended with r: when it returned normally
\* an archive WorkItem goes on to shutil.rmtree(extract_path), line 110, which
\* raises FileNotFoundError inside the try when the directory is absent
AfterDirectory(r, src) ==
    IF r.exc # "" \/ ~InCbz
    THEN [tracker |-> r.tracker, exc |-> r.exc, src |-> src]
    ELSE IF src[cur].exists
         THEN [tracker |-> r.tracker, exc |-> "", src |-> [src EXCEPT ![cur] = NoSrcDir]]
         ELSE [tracker |-> HandleCbz(r.tracker).tracker,
               exc |-> HandleCbz(r.tracker).exc, src |-> src]

Counted(h, r) == [h EXCEPT !.calls = @ + (Len(r.tracker.errors) - Len(tracker.errors))]

\* config.src_dir.is_dir()
src_dir_is_dir_assumed == TRUE
src_dir_is_dir == src_ok

\* main.py 20-35
Begin ==
    /\ mpc = "begin"
    /\ IF ~src_dir_is_dir
       THEN /\ run' = Returned(2)
            /\ mpc' = "end"
            /\ idx' = idx
       ELSE /\ run' = run
            /\ mpc' = "next"
            /\ idx' = 1
    /\ UNCHANGED <<cfg, src_ok, items, cur, tasks, srcDirs, destDirs, archives,
                   tracker, hist, pimg>>

\* main.py 37-53: the loop takes the next item
EnterItem ==
    /\ mpc = "next"
    /\ idx <= Len(items)
    /\ hist' = [hist EXCEPT !.entered = @ \cup {idx}]
    /\ IF items[idx].kind = "dir"
       THEN IF srcDirs[ItemName].exists      \* item.is_dir()
            THEN /\ mpc' = "scan"
                 /\ cur' = ItemName
                 /\ idx' = idx
            ELSE /\ mpc' = "next"
                 /\ cur' = cur
                 /\ idx' = idx + 1
       ELSE /\ mpc' = "extract"              \* item.suffix == ".cbz"
            /\ cur' = cur
            /\ idx' = idx
    /\ UNCHANGED <<cfg, src_ok, items, tasks, srcDirs, destDirs, archives,
                   tracker, run, pimg>>

\* extract_and_process_cbz up to the call of process_images_in_directory,
\* lines 87-103, and its except clause when the extraction raises
\* what extractall leaves behind: every member ("ok"), nothing (the archive
\* cannot be read) or, when it raises on a member, the members written so
\* far, the file of the failing member among them or not
ExtractChoices(fs) ==
    {<<"ok", fs>>, <<"bad_zip", {}>>}
    \cup { <<"partial", sub>> : sub \in IF fs = {} THEN {} ELSE SUBSET fs }
Extract ==
    /\ mpc = "extract"
    /\ IF config_dry_run
       THEN /\ Leave([tracker |-> tracker, exc |-> ""], srcDirs)
            /\ UNCHANGED hist
       ELSE \E ch \in ExtractChoices(items[idx].files) :
              LET n == ItemName
                  \* zip_ref.extractall(extract_path), extract_path = cbz_path.with_suffix("");
                  \* the directory is made with the first member written, or
                  \* with the member that fails
                  src == IF ch[1] = "bad_zip" THEN srcDirs
                         ELSE [srcDirs EXCEPT ![n] =
                                 [exists |-> @.exists \/ ch[2] # {} \/ ch[1] = "partial",
                                  files |-> @.files \cup ch[2]]]
                  h == [hist EXCEPT !.extractStarted = @ \cup {n},
                                    !.envFail = IF ch[1] = "ok" THEN @ ELSE @ \cup {ch[1]}]
              IN IF ch[1] = "ok"
                 THEN /\ srcDirs' = src
                      /\ cur' = n
                      /\ mpc' = "scan"
                      /\ hist' = h
                      /\ UNCHANGED <<idx, tasks, tracker, run>>
                 ELSE /\ Leave(HandleCbz(tracker), src)
                      /\ hist' = Counted(h, HandleCbz(tracker))
    /\ UNCHANGED <<cfg, src_ok, items, destDirs, archives, pimg>>

\* process_images_in_directory, lines 209-236: list the image files and
\* submit one future per file
\* file_path.suffix.lower(), for every file of the universe
suffix_lower == [f \in FileUniverse |-> lower(f.ext)]
\* file_path.suffix.lower() in IMAGE_EXTENSIONS
IsImage(f) == suffix_lower[f] \in IMAGE_EXTENSIONS
Scan ==
    /\ mpc = "scan"
    /\ \E listed \in BOOLEAN :
         IF listed
         THEN /\ tasks' = [f \in { g \in srcDirs[cur].files : IsImage(g) } |-> NewTask]
              /\ mpc' = "pool"
              /\ UNCHANGED <<idx, cur, srcDirs, tracker, run, hist>>
         ELSE \* directory.rglob raises
              LET r == AfterDirectory(HandleDir(tracker, "OSError"), srcDirs)
              IN /\ Leave(r, r.src)
                 /\ hist' = Counted([hist EXCEPT !.envFail = @ \cup {"scan_fail"}], r)
    /\ UNCHANGED <<cfg, src_ok, items, destDirs, archives, pimg>>

\* lines 238-247: every future has completed; an exception a future holds
\* is caught by the loop (and logged unless continue_on_error)
Collect ==
    /\ mpc = "pool"
    /\ AllDone
    /\ mpc' = "archive"
    /\ UNCHANGED <<cfg, src_ok, items, idx, cur, tasks, srcDirs, destDirs, archives,
                   tracker, run, hist, pimg>>

\* lines 248-251: __create_cbz_archive(directory_to_compress, ...), and the
\* way back up to process_images
Archive ==
    /\ mpc = "archive"
    /\ IF config_dry_run
       THEN LET r == AfterDirectory([tracker |-> tracker, exc |-> ""], srcDirs)
            IN /\ Leave(r, r.src)
               /\ UNCHANGED <<destDirs, archives, hist>>
       ELSE \E ch \in ArchiveChoices(cur) :
              LET a == create_archive(cur, ch[1], ch[2])
                  r == AfterDirectory(IF a.failed = "" THEN [tracker |-> tracker, exc |-> ""]
                                      ELSE HandleArchive(tracker), srcDirs)
              IN /\ destDirs' = [destDirs EXCEPT ![cur] = a.dest]
                 /\ archives' = [archives EXCEPT ![cur] = a.arch]
                 /\ Leave(r, r.src)
                 /\ hist' = Counted(
                       [hist EXCEPT
                          !.archOutcome[cur] = IF a.failed = "" THEN "ok" ELSE a.failed,
                          !.envFail = IF a.failed \in {"open_fail", "write_fail"}
                                      THEN @ \cup {a.failed} ELSE @], r)
    /\ UNCHANGED <<cfg, src_ok, items, pimg>>

\* main.py 55-139: the summary and the exit code.  With no error recorded
\* the function reads `args`, a local of main(), at line 100: NameError.
Summary ==
    /\ mpc = "next"
    /\ idx > Len(items)
    /\ mpc' = "end"
    /\ run' = IF has_errors(tracker)
              THEN (IF has_critical_errors(tracker) THEN Returned(2) ELSE Returned(1))
              ELSE Raised("NameError")
    /\ UNCHANGED <<cfg, src_ok, items, idx, cur, tasks, srcDirs, destDirs, archives,
                   tracker, hist, pimg>>

Next ==
    \/ Begin
    \/ EnterItem
    \/ Extract
    \/ Scan
    \/ \E f \in FileUniverse : StartFile(f)
    \/ \E f \in FileUniverse : ProcessAttempt(f)
    \/ \E f \in FileUniverse : ProcessPage2(f)
    \/ \E f \in FileUniverse : AeAppend(f)
    \/ \E f \in FileUniverse : AeFileGet(f)
    \/ \E f \in FileUniverse : AeFileSet(f)
    \/ \E f \in FileUniverse : AeStepGet(f)
    \/ \E f \in FileUniverse : AeStepSet(f)
    \/ Collect
    \/ Archive
    \/ Summary

Spec == Init /\ [][Next]_vars


(***************************************************************************)
(* Properties of a run.                                                    *)
(***************************************************************************)
\* the records the tracker holds for a path / for a step
RecordsOfPath(p) == { i \in 1 .. Len(tracker.errors) : tracker.errors[i].path = p }
\* a file of WorkItem i failed for good (its ErrorRecord is in the tracker)
FinalFailureIn(i) ==
    \E k \in 1 .. Len(tracker.errors) :
        /\ tracker.errors[k].step = IMAGE_PROCESSING
        /\ tracker.errors[k].path[2] = items[i].name
\* the handling of WorkItem i has ended
Handled(i) == idx > i \/ mpc = "end"

\* C1: in a run that is not a dry run, process() is called at most
\* max_retries+1 times per file and never again after a call succeeded; a
\* finished file has exactly one ErrorRecord (ERROR, step image_processing)
\* when all max_retries+1 calls failed and none when a call succeeded.
C1_BoundedRetry ==
    ~cfg.dry_run =>
      \A f \in DOMAIN tasks :
        LET t == tasks[f]
            recs == RecordsOfPath(FilePath(cur, f))
        IN /\ t.calls <= cfg.max_retries + 1
           /\ t.ok => t.pc = "done"
           /\ Cardinality(recs) <= 1
           /\ \A i \in recs : /\ tracker.errors[i].severity = ERROR
                              /\ tracker.errors[i].step = IMAGE_PROCESSING
           /\ t.pc = "done" =>
                /\ t.ok <=> recs = {}
                /\ ~t.ok => t.calls = cfg.max_retries + 1
C1_Witness ==
    /\ ~cfg.dry_run
    /\ cfg.max_retries = 1
    /\ \E f, g \in DOMAIN tasks :
         /\ tasks[f].pc = "done" /\ ~tasks[f].ok /\ tasks[f].calls = 2
         /\ Cardinality(RecordsOfPath(FilePath(cur, f))) = 1
         /\ tasks[g].pc = "done" /\ tasks[g].ok /\ tasks[g].calls = 2
         /\ RecordsOfPath(FilePath(cur, g)) = {}

\* C2: a final per-file failure aborts the run exactly when continue_on_error
\* is false: then the failing directory is not archived and no later
\* WorkItem is started; with continue_on_error the run is not aborted.
C2_AbortIffNotContinue ==
    \A i \in 1 .. Len(items) :
        FinalFailureIn(i) =>
            IF cfg.continue_on_error
            THEN run.state # "raised"
            ELSE /\ archives[items[i].name].state = "none"
                 /\ \A j \in hist.entered : j <= i

\* C3: a run over a valid src_dir that went through all its WorkItems
\* returns 0 when no error was recorded, 2 when a CRITICAL record exists and
\* 1 otherwise.
C3_ResultCode ==
    (src_ok /\ mpc = "end" /\ idx > Len(items)) =>
        /\ run.state = "returned"
        /\ run.code = IF ~has_errors(tracker) THEN 0
                      ELSE IF has_critical_errors(tracker) THEN 2 ELSE 1

\* C4: with continue_on_error, when the only failures of a run over source
\* directories are images failing on every attempt (each failing before it
\* wrote anything), the run returns 1, has_errors() holds,
\* has_critical_errors() does not, and each bundle holds exactly the outputs
\* of the successfully processed images of its directory.
SuccessfulIn(i) == { f \in items[i].files : FilePath(items[i].name, f) \in hist.okFiles }
C4_PartialFailureRun ==
    ( /\ run.state # "running"
      /\ src_ok /\ cfg.continue_on_error /\ ~cfg.dry_run
      /\ hist.envFail = {} /\ hist.halfSaved = {}
      /\ \A i \in 1 .. Len(items) : items[i].kind = "dir"
      /\ \E i \in 1 .. Len(items) : FinalFailureIn(i) )
    => /\ run = Returned(1)
       /\ has_errors(tracker)
       /\ ~has_critical_errors(tracker)
       /\ \A i \in 1 .. Len(items) :
            LET n == items[i].name
                m == archives[n].members
            IN /\ archives[n].state = "complete"
               /\ \A f \in SuccessfulIn(i) :
                    \A leaf \in Written(f, "ok") :
                        leaf \in DOMAIN m /\ m[leaf] = FilePath(n, f)
               /\ \A leaf \in DOMAIN m :
                    \E f \in SuccessfulIn(i) : m[leaf] = FilePath(n, f)

\* C5: once the handling of an archive WorkItem whose extraction was started
\* has ended, its extracted directory no longer exists.
C5_ExtractedTreeDeleted ==
    \A i \in 1 .. Len(items) :
        ( /\ items[i].kind = "cbz"
          /\ items[i].name \in hist.extractStarted
          /\ Handled(i) )
        => ~srcDirs[items[i].name].exists

\* C6: a step in which the creation of the archive of directory n fails
\* leaves the tree of n as it was and adds an ERROR record for the archive;
\* a step that deletes the tree of n leaves a complete archive holding every
\* file of the tree.
C6_ArchiveFailureKeepsTree ==
    [][ \A n \in Names :
          /\ ( hist.archOutcome[n] = "none"
               /\ hist'.archOutcome[n] \in {"open_fail", "write_fail", "rmtree_fail"} )
             => /\ destDirs'[n] = destDirs[n]
                /\ \E k \in 1 .. Len(tracker'.errors) :
                      /\ k > Len(tracker.errors)
                      /\ tracker'.errors[k].path = DestCbz(n)
                      /\ tracker'.errors[k].severity = ERROR
          /\ ( destDirs[n].exists /\ ~destDirs'[n].exists )
             => /\ archives'[n].state = "complete"
                /\ archives'[n].members = destDirs[n].files ]_vars
C6_Witness ==
    \E n \in Names :
        /\ hist.archOutcome[n] = "write_fail"
        /\ destDirs[n].exists
        /\ DOMAIN destDirs[n].files # {}
        /\ \E k \in 1 .. Len(tracker.errors) :
              tracker.errors[k].path = DestCbz(n) /\ tracker.errors[k].severity = ERROR

\* C7: whenever no add_error call is in progress, the tracker holds one
\* record per call made, and each per-file and per-step counter equals the
\* number of records carrying that path / step.
InAddError == { f \in DOMAIN tasks :
                  tasks[f].pc \in {"ae_append", "ae_fget", "ae_fset", "ae_sget", "ae_sset"} }
CountersMatch(tr) ==
    /\ \A i \in 1 .. Len(tr.errors) :
          /\ tr.errors[i].path # NoPath =>
                DictGet(tr.file_errors, tr.errors[i].path) =
                  Cardinality({ j \in 1 .. Len(tr.errors) : tr.errors[j].path = tr.errors[i].path })
          /\ tr.errors[i].step # NoStep =>
                DictGet(tr.step_errors, tr.errors[i].step) =
                  Cardinality({ j \in 1 .. Len(tr.errors) : tr.errors[j].step = tr.errors[i].step })
    /\ \A p \in DOMAIN tr.file_errors : \E i \in 1 .. Len(tr.errors) : tr.errors[i].path = p
    /\ \A st \in DOMAIN tr.step_errors : \E i \in 1 .. Len(tr.errors) : tr.errors[i].step = st
C7_NoLostUpdate ==
    InAddError = {} => /\ Len(tracker.errors) = hist.calls
                       /\ CountersMatch(tracker)


(***************************************************************************)
(* A tracker used by one thread: up to MaxCalls add_error calls, each a    *)
(* whole call, with arbitrary path, severity and step.                     *)
(***************************************************************************)
SeqPaths == {NoPath, <<"src", "v1", <<"a">>, ".jpg">>}
SeqSteps == {NoStep, "image_processing", "cbz_creation", "cbz_extraction"}

IdleRun ==
    /\ cfg = [continue_on_error |-> TRUE, max_retries |-> 0, workers |-> 1, dry_run |-> FALSE,
              pipeline_preset |-> "kindle"]
    /\ src_ok = TRUE
    /\ items = <<>>
    /\ idx = 0
    /\ mpc = "off"
    /\ cur = ""
    /\ tasks = NoTasks
    /\ srcDirs = [n \in Names |-> NoSrcDir]
    /\ destDirs = [n \in Names |-> NoDir]
    /\ archives = [n \in Names |-> NoArchive]
    /\ run = [state |-> "running", code |-> -1, exc |-> ""]
    /\ hist = NoHist

InitSeq ==
    /\ IdleRun
    /\ tracker = ErrorTracker
    /\ pimg = NoImage

AddError ==
    /\ hist.calls < MaxCalls
    /\ \E path \in SeqPaths, severity \in ErrorSeverity, step \in SeqSteps :
          tracker' = add_error(tracker, path, severity, step)
    /\ hist' = [hist EXCEPT !.calls = @ + 1]
    /\ UNCHANGED <<cfg, src_ok, items, idx, mpc, cur, tasks, srcDirs, destDirs,
                   archives, run, pimg>>

\* ErrorTracker.clear(), error_handler.py 135-139: the three collections are
\* emptied; the calls counted are those made since
clear(tr) == [tr EXCEPT !.errors = <<>>, !.file_errors = EmptyDict,
                        !.step_errors = EmptyDict]
Clear ==
    /\ tracker' = clear(tracker)
    /\ hist' = [hist EXCEPT !.calls = 0]
    /\ UNCHANGED <<cfg, src_ok, items, idx, mpc, cur, tasks, srcDirs, destDirs,
                   archives, run, pimg>>

NextSeq == AddError \/ Clear

SpecSeq == InitSeq /\ [][NextSeq]_vars

RECURSIVE SumCounts(_)
SumCounts(d) ==
    IF DOMAIN d = {} THEN 0
    ELSE LET k == CHOOSE x \in DOMAIN d : TRUE
         IN d[k] + SumCounts([x \in DOMAIN d \ {k} |-> d[x]])

StepsNamed(tr) == { tr.errors[i].step : i \in 1 .. Len(tr.errors) } \ {NoStep}

\* C8: after N sequential add_error calls that each name a step, K of them
\* distinct, get_summary() has total_errors = N, warnings + errors +
\* critical = N, and errors_by_step has exactly those K keys, with counts
\* summing to N.
C8_SummaryCounts ==
    LET sm == get_summary(tracker)
        N == hist.calls
    IN /\ sm.total_errors = N
       /\ sm.warnings + sm.errors + sm.critical = N
       /\ (\A i \in 1 .. Len(tracker.errors) : tracker.errors[i].step # NoStep)
          => /\ DOMAIN sm.errors_by_step = StepsNamed(tracker)
             /\ SumCounts(sm.errors_by_step) = N
C8_Witness ==
    LET sm == get_summary(tracker)
    IN /\ hist.calls = 3
       /\ \A i \in 1 .. Len(tracker.errors) : tracker.errors[i].step # NoStep
       /\ Cardinality(DOMAIN sm.errors_by_step) = 2
       /\ sm.warnings = 1 /\ sm.errors = 1 /\ sm.critical = 1
       /\ SumCounts(sm.errors_by_step) = 3


(***************************************************************************)
(* The image pipeline.  A step is its class, the name get_name() returns   *)
(* and the parameters that decide the size of its output.  An image is its *)
(* size <<width, height>>.                                                 *)
(***************************************************************************)
Min(a, b) == IF a < b THEN a ELSE b
Max(a, b) == IF a > b THEN a ELSE b

\* Python's  keyword in step_name  on strings
Contains(name, keyword) ==
    \E i \in 1 .. (Len(name) - Len(keyword) + 1) :
        SubSeq(name, i, i + Len(keyword) - 1) = keyword

Palette16Len == 48
MaxPaletteColors == 256
MaxLevel == 255

\* ProcessingStep: what every step carries.  factor is the step's strength as
\* written in the source ("" when it has none), colors and palette belong to
\* QuantizeStep; a palette is its entries, one grey level per RGB triple,
\* and << >> stands for None
ProcessingStep(cls, name) ==
    [cls |-> cls, name |-> name, min_margin |-> 0, resolution |-> <<0, 0>>,
     enabled |-> TRUE, factor |-> "", colors |-> 0, palette |-> <<>>]

AutoRotateStep(cv2) ==
    ProcessingStep("AutoRotateStep",
                   IF cv2 THEN "AutoRotate(opencv)" ELSE "AutoRotate(basic)")
SmartCropStep(min_margin) ==
    [ProcessingStep("SmartCropStep", "SmartCrop") EXCEPT !.min_margin = min_margin]
TextEnhanceStep(text_sharpen) ==
    [ProcessingStep("TextEnhanceStep", "TextEnhance(s=" \o text_sharpen \o ")")
        EXCEPT !.factor = text_sharpen]
AdaptiveTextEnhanceStep(text_sharpen) ==
    [ProcessingStep("AdaptiveTextEnhanceStep",
                    "AdaptiveTextEnhance(s=" \o text_sharpen \o ")")
        EXCEPT !.factor = text_sharpen]
ContrastStep(factor) ==
    [ProcessingStep("ContrastStep", "Contrast") EXCEPT !.factor = factor]
SharpenStep(factor) ==
    [ProcessingStep("SharpenStep", "Sharpen") EXCEPT !.factor = factor]

\* quantize.Palette16: sixteen grey levels 0x00, 0x11, ..., 0xFF
Palette16 == [i \in 1 .. 16 |-> (i - 1) * 17]

\* create_palette_from_bit_depth
create_palette_from_bit_depth(bit_depth, color_mode) ==
    LET num_colors == Min(2 ^ bit_depth, MaxPaletteColors)
    IN IF ~color_mode
       THEN [i \in 1 .. MaxPaletteColors |->
               IF i <= num_colors
               THEN (IF num_colors > 1 THEN ((i - 1) * MaxLevel) \div (num_colors - 1) ELSE 0)
               ELSE 0]
       ELSE <<>>

\* QuantizeStep.__init__: the colour count and palette from a palette, from
\* colors=, or from a bit depth
QuantizeStep(colors, palette) ==
    [ProcessingStep("QuantizeStep", "Quantize(" \o ToString(colors) \o ")")
        EXCEPT !.colors = colors, !.palette = palette]
QuantizePalette16 == QuantizeStep(Palette16Len \div 3, Palette16)
\* max_colors is Optional[int]: the value standing for None
None == -1
QuantizeColors_uncapped(colors) ==
    IF colors # None THEN QuantizeStep(colors, <<>>) ELSE QuantizePalette16
QuantizeColors(colors) ==
    IF colors # None
    THEN QuantizeStep(Min(colors, MaxPaletteColors), <<>>)
    ELSE QuantizePalette16
QuantizeBitDepth(bit_depth, color_mode) ==
    QuantizeStep(Min(2 ^ bit_depth, MaxPaletteColors),
                 create_palette_from_bit_depth(bit_depth, color_mode))
ColorProfileStep(color_support, target_gamut, bit_depth) ==
    ProcessingStep("ColorProfileStep",
                   IF ~color_support
                   THEN "ColorProfile(B&W-" \o ToString(bit_depth) \o "bit)"
                   ELSE "ColorProfile(" \o (IF target_gamut # "" THEN target_gamut ELSE "RGB") \o ")")
ResizeStepEnabled(resolution, enabled) ==
    [ProcessingStep("ResizeStep",
                    IF ~enabled THEN "Resize(disabled)"
                    ELSE "Resize(" \o ToString(resolution[1]) \o "x"
                                   \o ToString(resolution[2]) \o ")")
        EXCEPT !.resolution = resolution, !.enabled = enabled]
ResizeStep(resolution) == ResizeStepEnabled(resolution, TRUE)

(***************************************************************************)
(* PipelinePresets: the step lists of the named presets                    *)
(***************************************************************************)
DefaultMargin == 10
AdvancedMargin == 8

kindle(cv2) ==
    << AutoRotateStep(cv2), SmartCropStep(DefaultMargin), TextEnhanceStep("1.5"),
       ContrastStep("1.5"), SharpenStep("1.2"), QuantizePalette16 >>
tablet(cv2) ==
    << AutoRotateStep(cv2), SmartCropStep(DefaultMargin), TextEnhanceStep("1.3"),
       ContrastStep("1.3"), SharpenStep("1.1") >>
print == << SharpenStep("1.05") >>
high_quality == << ContrastStep("1.2"), SharpenStep("1.4") >>
minimal == << >>
kobo(cv2) ==
    << AutoRotateStep(cv2), SmartCropStep(DefaultMargin), TextEnhanceStep("1.5"),
       ContrastStep("1.6"), SharpenStep("1.3"), QuantizePalette16 >>
tolino(cv2) ==
    << AutoRotateStep(cv2), SmartCropStep(DefaultMargin), TextEnhanceStep("1.5"),
       ContrastStep("1.5"), SharpenStep("1.2"), QuantizePalette16 >>
pocketbook(cv2) ==
    << AutoRotateStep(cv2), SmartCropStep(DefaultMargin), TextEnhanceStep("1.5"),
       ContrastStep("1.5"), SharpenStep("1.2"), QuantizePalette16 >>
pocketbook_color(cv2) ==
    << AutoRotateStep(cv2), SmartCropStep(DefaultMargin), TextEnhanceStep("1.3"),
       ContrastStep("1.3"), SharpenStep("1.1") >>
ipad(cv2) ==
    << AutoRotateStep(cv2), SmartCropStep(DefaultMargin), TextEnhanceStep("1.4"),
       ContrastStep("1.2"), SharpenStep("1.4") >>
eink(cv2) ==
    << AutoRotateStep(cv2), SmartCropStep(DefaultMargin), TextEnhanceStep("1.5"),
       ContrastStep("1.5"), SharpenStep("1.2"), QuantizePalette16 >>
scanned_manga(cv2) ==
    << AutoRotateStep(cv2), SmartCropStep(DefaultMargin), TextEnhanceStep("1.5"),
       ContrastStep("1.5"), SharpenStep("1.2"), QuantizePalette16 >>
scanned_manga_advanced(cv2) ==
    << AutoRotateStep(cv2), SmartCropStep(AdvancedMargin), AdaptiveTextEnhanceStep("1.6"),
       ContrastStep("1.6"), SharpenStep("1.3"), QuantizePalette16 >>

\* presets[name.lower()](), for a name that is a preset (UnknownPreset
\* tells when the lookup raises instead)
get_preset(name, cv2) ==
    LET key == lower(name)
    IN
    CASE key = "kindle" -> kindle(cv2)
      [] key = "tablet" -> tablet(cv2)
      [] key = "print" -> print
      [] key = "high_quality" -> high_quality
      [] key = "minimal" -> minimal
      [] key = "kobo" -> kobo(cv2)
      [] key = "tolino" -> tolino(cv2)
      [] key = "pocketbook" -> pocketbook(cv2)
      [] key = "pocketbook_color" -> pocketbook_color(cv2)
      [] key = "ipad" -> ipad(cv2)
      [] key = "eink" -> eink(cv2)
      [] key = "scanned_manga" -> scanned_manga(cv2)
      [] key = "scanned_manga_advanced" -> scanned_manga_advanced(cv2)

\* DeviceTemplates: the display characteristics from_device_spec reads
EINK_BW == [display_type |-> "e-ink", color_support |-> FALSE, color_gamut |-> "",
            bit_depth |-> 4, max_colors |-> 16]
EINK_COLOR == [display_type |-> "e-ink", color_support |-> TRUE, color_gamut |-> "sRGB",
               bit_depth |-> 12, max_colors |-> 4096]
COLOR == [display_type |-> "retina", color_support |-> TRUE, color_gamut |-> "DCI-P3",
          bit_depth |-> 24, max_colors |-> 16777216]
DeviceTemplates == {EINK_BW, EINK_COLOR, COLOR}

\* _create_device_spec: the template's display characteristics and the
\* device's own ppi (name, resolution and screen size play no part in the
\* synthesis)
_create_device_spec(template, ppi) ==
    [display_type |-> template.display_type, color_support |-> template.color_support,
     color_gamut |-> template.color_gamut, bit_depth |-> template.bit_depth,
     max_colors |-> template.max_colors, ppi |-> ppi]

\* the <<template, ppi>> of the devices of devices/brands/*.py
RegisteredDevices ==
    { _create_device_spec(d[1], d[2]) :
        d \in { <<EINK_BW, 150>>, <<EINK_BW, 212>>, <<EINK_BW, 227>>, <<EINK_BW, 300>>,
                <<EINK_COLOR, 212>>, <<EINK_COLOR, 227>>, <<EINK_COLOR, 300>>,
                <<COLOR, 264>>, <<COLOR, 326>> } }

HighPpi == 300
QuantizeBelowBits == 16

\* contrast_factor and sharpen_factor of from_device_spec
contrast_factor(device_spec) ==
    IF device_spec.display_type = "e-ink"
    THEN (IF device_spec.color_support THEN "1.3" ELSE "1.6")
    ELSE "1.2"
sharpen_factor_above(device_spec) ==
    IF device_spec.display_type = "e-ink"
    THEN (IF device_spec.ppi > HighPpi THEN "1.3" ELSE "1.2")
    ELSE (IF device_spec.ppi > HighPpi THEN "1.4" ELSE "1.3")
sharpen_factor(device_spec) ==
    IF device_spec.display_type = "e-ink"
    THEN (IF device_spec.ppi >= HighPpi THEN "1.3" ELSE "1.2")
    ELSE (IF device_spec.ppi >= HighPpi THEN "1.4" ELSE "1.3")

\* the test before the quantization step: if device_spec.bit_depth < 16
LimitedColors_mono_only(device_spec) ==
    device_spec.bit_depth < QuantizeBelowBits /\ ~device_spec.color_support
LimitedColors(device_spec) == device_spec.bit_depth < QuantizeBelowBits

from_device_spec(device_spec, cv2) ==
    << AutoRotateStep(cv2), SmartCropStep(DefaultMargin),
       IF device_spec.display_type = "e-ink"
       THEN TextEnhanceStep("1.5") ELSE TextEnhanceStep("1.3"),
       ColorProfileStep(device_spec.color_support, device_spec.color_gamut,
                        device_spec.bit_depth),
       ContrastStep(contrast_factor(device_spec)),
       SharpenStep(sharpen_factor(device_spec)) >>
    \o IF LimitedColors(device_spec)
       THEN IF device_spec.color_support
            THEN << QuantizeColors(device_spec.max_colors) >>
            ELSE << QuantizeBitDepth(device_spec.bit_depth, FALSE) >>
       ELSE << >>

(***************************************************************************)
(* What a step does to the size of an image.  Each operator yields the set *)
(* of possible results: sizes, or "raise" when the step raises.            *)
(***************************************************************************)
\* Python round(num / den): to the nearest integer, ties to even
Round(num, den) ==
    LET q == num \div den
        r == num % den
    IN IF 2 * r < den THEN q
       ELSE IF 2 * r > den THEN q + 1
       ELSE IF q % 2 = 0 THEN q ELSE q + 1

RECURSIVE gcd(_, _)
gcd(a, b) == IF b = 0 THEN a ELSE gcd(b, a % b)
RECURSIVE IsPowerOfTwo(_)
IsPowerOfTwo(n) == n = 1 \/ (n % 2 = 0 /\ IsPowerOfTwo(n \div 2))
\* round(a / b * t) as ImageOps.contain computes it, in floating point: the
\* quotient a / b is a float, exact only when the reduced denominator is a
\* power of two.  Away from a tie the float product rounds as the exact
\* value does (sizes far below 2^31); at a tie computed from an inexact
\* quotient the product may fall on either side, and both results are given
round_scaled(a, b, t) ==
    LET q == (a * t) \div b
        r == (a * t) % b
    IN IF 2 * r # b \/ IsPowerOfTwo(b \div gcd(a, b))
       THEN { Round(a * t, b) }
       ELSE { q, q + 1 }

\* ImageOps.contain: the size the image is scaled to inside the target
contain(size, target) ==
    LET w == size[1]
        h == size[2]
    IN IF w * target[2] = target[1] * h THEN { target }
       ELSE IF w * target[2] > target[1] * h
            THEN { << target[1], new_height >> : new_height \in round_scaled(h, w, target[1]) }
            ELSE { << new_width, target[2] >> : new_width \in round_scaled(w, h, target[2]) }

\* image.resize(size): ValueError for a size with an empty side
Image_resize(size) == IF size[1] < 1 \/ size[2] < 1 THEN "raise" ELSE size

\* ImageOps.pad after contain: the scaled image itself when it has the
\* target size, else a new image Image.new(image.mode, size, color) on which
\* the scaled image is pasted
pad(resized, target) == IF resized = target THEN resized ELSE target

\* ResizeStep.process without the padding of ImageOps.pad
ResizeStep_process_no_pad(size, resolution) ==
    { Image_resize(c) : c \in contain(size, resolution) }

\* ResizeStep.process: ImageOps.pad(image, self.resolution, ...)
ResizeStep_process(size, resolution) ==
    { IF Image_resize(c) = "raise" THEN "raise" ELSE pad(Image_resize(c), resolution) :
        c \in contain(size, resolution) }

\* the content of the images a call is given: what diff.getbbox() reports,
\* none (a blank page) or a box <<left, top, right, bottom>>; the corners
\* are drawn from the edges and the places next to an edge where
\* min_margin decides
Grid(n) == { c \in {0, DefaultMargin + 1, n - DefaultMargin - 1, n} : c \in 0 .. n }
NonEmptyBox(bb) == bb = <<>> \/ (bb[1] < bb[3] /\ bb[2] < bb[4])
BBoxes(size) ==
    { bb \in {<<>>} \cup { <<l, t, r, b>> : l \in Grid(size[1]), t \in Grid(size[2]),
                                            r \in Grid(size[1]), b \in Grid(size[2]) } :
        NonEmptyBox(bb) }

\* SmartCropStep.process for one bounding box: the rectangle
\* <<left, top, right, bottom>> of the image that is returned, the whole
\* image when it is returned unmodified
SmartCropBox_inset(size, bbox, min_margin) ==
    IF bbox = <<>> THEN << 0, 0, size[1], size[2] >>
    ELSE LET width == size[1]
             height == size[2]
             left == Max(0, bbox[1] - min_margin)
             top == Max(0, bbox[2] - min_margin)
             right == Min(width, bbox[3] - min_margin)
             bottom == Min(height, bbox[4] - min_margin)
             crop_amount == (bbox[1] - left) + (bbox[2] - top)
                            + (width - right) + (height - bottom)
         IN IF crop_amount > min_margin * 2 /\ left < right /\ top < bottom
            THEN << left, top, right, bottom >>
            ELSE << 0, 0, width, height >>
SmartCropBox(size, bbox, min_margin) ==
    IF bbox = <<>> THEN << 0, 0, size[1], size[2] >>
    ELSE LET width == size[1]
             height == size[2]
             left == Max(0, bbox[1] - min_margin)
             top == Max(0, bbox[2] - min_margin)
             right == Min(width, bbox[3] + min_margin)
             bottom == Min(height, bbox[4] + min_margin)
             crop_amount == (bbox[1] - left) + (bbox[2] - top)
                            + (width - right) + (height - bottom)
         IN IF crop_amount > min_margin * 2
            THEN << left, top, right, bottom >>
            ELSE << 0, 0, width, height >>
\* the size of the image SmartCropStep.process returns
SmartCrop(size, bbox, min_margin) ==
    LET box == SmartCropBox(size, bbox, min_margin)
    IN << box[3] - box[1], box[4] - box[2] >>

\* only an enabled SmartCropStep calls getbbox(): the contents to tell apart
\* for a call of step.process on an image of this size
Contents(step, size) ==
    IF step.cls = "SmartCropStep" /\ step.enabled THEN BBoxes(size) ELSE { <<>> }
\* step.process(image) for an image of this size whose getbbox() is bbox:
\* the sizes the result can have, or "raise"
StepProcess(step, size, bbox) ==
    CASE ~step.enabled -> {size}
      [] step.cls = "ResizeStep" -> ResizeStep_process(size, step.resolution)
      [] step.cls = "SmartCropStep" -> { SmartCrop(size, bbox, step.min_margin) }
      [] OTHER -> {size}

(***************************************************************************)
(* _insert_resize_step                                                     *)
(***************************************************************************)
ResizeKeywords == <<"Crop", "Rotate", "TextEnhance", "Resize">>

\* any(keyword in step_name for keyword in [...]) with "TextEnhance" left out
IsPreResizeName_no_text(step_name) ==
    \E keyword \in {"Crop", "Rotate", "Resize"} : Contains(step_name, keyword)

\* any(keyword in step_name for keyword in ["Crop", "Rotate", "TextEnhance", "Resize"])
IsPreResizeName(step_name) ==
    \E k \in 1 .. Len(ResizeKeywords) : Contains(step_name, ResizeKeywords[k])

\* "Resize" not in step_name fails: an existing Resize step, which is skipped
IsResizeName_never(step_name) == FALSE
IsResizeName(step_name) == Contains(step_name, "Resize")

\* the loop over pipeline.steps: acc is the new pipeline so far, inserted
\* the flag resize_inserted
\* one iteration of the loop for a step: the new step list and the flag after it
InsertIter(step, acc, inserted, resolution) ==
    LET step_name == step.name
        ins == ~inserted /\ ~IsPreResizeName(step_name)
        acc1 == IF ins THEN Append(acc, ResizeStep(resolution)) ELSE acc
        acc2 == IF ~IsResizeName(step_name) THEN Append(acc1, step) ELSE acc1
    IN [acc |-> acc2, inserted |-> inserted \/ ins]

\* after the loop: the Resize step goes last when it was not inserted
InsertEnd(acc, inserted, resolution) ==
    IF ~inserted THEN Append(acc, ResizeStep(resolution)) ELSE acc

RECURSIVE InsertLoop(_, _, _, _, _)
InsertLoop(steps, k, acc, inserted, resolution) ==
    IF k > Len(steps)
    THEN InsertEnd(acc, inserted, resolution)
    ELSE LET it == InsertIter(steps[k], acc, inserted, resolution)
         IN InsertLoop(steps, k + 1, it.acc, it.inserted, resolution)

_insert_resize_step(steps, resolution) == InsertLoop(steps, 1, <<>>, FALSE, resolution)


(***************************************************************************)
(* process(image_path, output_path, resolution, rtl, quality, pipeline) on *)
(* one image, a step at a time.  pimg.pc is the position in process():     *)
(*   insert  before _insert_resize_step       open   before Image.open    *)
(*   step    in pipeline_with_resize.process  done   returned             *)
(*   raised  left by an exception                                          *)
(***************************************************************************)
KindleResolution == <<1072, 1448>>
Resolutions == { <<600, 800>>, KindleResolution }
OldResolution == <<300, 400>>
\* square, extreme aspect ratios, already at the target size, spreads
ImageSizes(resolution) ==
    { <<1000, 1000>>, <<1, 5000>>, <<30, 2000>>, resolution, <<2001, 1000>>, <<5000, 2>> }

StepUniverse(cv2) ==
    { AutoRotateStep(cv2), SmartCropStep(DefaultMargin), TextEnhanceStep("1.5"),
      ContrastStep("1.5"), QuantizePalette16, ResizeStep(OldResolution),
      ResizeStepEnabled(OldResolution, FALSE) }
CustomPipelines(cv2) ==
    UNION { [1 .. n -> StepUniverse(cv2)] : n \in 0 .. MaxSteps }

DeviceKey(t) ==
    IF ~t.color_support THEN "eink_bw"
    ELSE IF t.display_type = "e-ink" THEN "eink_color" ELSE "color"

Sources(cv2) ==
    { [kind |-> "preset", key |-> n, pipeline |-> get_preset(n, cv2)] : n \in PresetNames }
    \cup { [kind |-> "device", key |-> DeviceKey(t), pipeline |-> from_device_spec(t, cv2)] :
             t \in RegisteredDevices }
    \cup { [kind |-> "custom", key |-> "", pipeline |-> pl] : pl \in CustomPipelines(cv2) }

InitPipe ==
    /\ IdleRun
    /\ tracker = ErrorTracker
    /\ \E cv2 \in BOOLEAN, rtl \in BOOLEAN, resolution \in Resolutions :
         \E src \in Sources(cv2), size \in ImageSizes(resolution) :
            pimg = [pc |-> "insert", source |-> src.kind, key |-> src.key,
                    pipeline |-> src.pipeline, resolution |-> resolution,
                    size |-> size, rtl |-> rtl,
                    steps |-> <<>>, pages |-> <<>>, page |-> 0, k |-> 0,
                    img |-> <<0, 0>>, cropped |-> FALSE, written |-> <<>>,
                    log |-> <<>>]

\* pipeline_with_resize = _insert_resize_step(pipeline, resolution)
InsertResize ==
    /\ pimg.pc = "insert"
    /\ pimg' = [pimg EXCEPT !.pc = "open",
                            !.steps = _insert_resize_step(pimg.pipeline, pimg.resolution)]
    /\ UNCHANGED <<runVars, tracker>>

\* the column ranges <<from, to>> process() crops its pages from: the two
\* halves of a spread in reading order, or the whole image
PageBoxes_ltr(size, rtl) ==
    LET width == size[1]
        height == size[2]
        left_page == << 0, width \div 2 >>
        right_page == << width \div 2, width >>
    IN IF width > height
       THEN << left_page, right_page >>
       ELSE << << 0, width >> >>
PageBoxes(size, rtl) ==
    LET width == size[1]
        height == size[2]
        left_page == << 0, width \div 2 >>
        right_page == << width \div 2, width >>
    IN IF width > height
       THEN IF rtl THEN << right_page, left_page >> ELSE << left_page, right_page >>
       ELSE << << 0, width >> >>
\* the sizes of the pages
Pages(size, rtl) ==
    LET boxes == PageBoxes(size, rtl)
    IN [i \in 1 .. Len(boxes) |-> << boxes[i][2] - boxes[i][1], size[2] >>]
\* page_suffix = f"_page_{i+1}"
PageSuffix(page) == "_page_" \o ToString(page)

OpenImage ==
    /\ pimg.pc = "open"
    /\ LET pages == Pages(pimg.size, pimg.rtl)
       IN pimg' = [pimg EXCEPT !.pc = "step", !.pages = pages, !.page = 1, !.k = 1,
                               !.img = pages[1]]
    /\ UNCHANGED <<runVars, tracker>>

\* what ImagePipeline.process hands to the next step: result, which starts
\* as the image and is rebound to each step's output
process_arg_image(p) == p.pages[p.page]
process_arg(p) == p.img

\* one iteration of ImagePipeline.process: result = step.process(result);
\* log is the record of the calls made to the steps of this process() call
ApplyStep ==
    /\ pimg.pc = "step"
    /\ pimg.k <= Len(pimg.steps)
    /\ \E bbox \in Contents(pimg.steps[pimg.k], process_arg(pimg)) :
       \E out \in StepProcess(pimg.steps[pimg.k], process_arg(pimg), bbox) :
          pimg' = IF out = "raise"
                  THEN [pimg EXCEPT !.pc = "raised"]
                  ELSE [pimg EXCEPT !.k = @ + 1, !.img = out,
                                    !.log = Append(@, [step |-> pimg.steps[pimg.k],
                                                       arg |-> process_arg(pimg),
                                                       out |-> out]),
                                    !.cropped = @ \/ (pimg.steps[pimg.k].cls = "SmartCropStep"
                                                       /\ out # pimg.img)]
    /\ UNCHANGED <<runVars, tracker>>

\* save(processed_img, ...), then the next page or the end of process()
SavePage ==
    /\ pimg.pc = "step"
    /\ pimg.k > Len(pimg.steps)
    /\ LET suffix == IF Len(pimg.pages) = 2 THEN pimg.page ELSE 0
           written == Append(pimg.written,
                             [page |-> suffix, size |-> pimg.img,
                              stem_suffix |-> IF Len(pimg.pages) = 2
                                              THEN PageSuffix(pimg.page) ELSE "",
                              cols |-> PageBoxes(pimg.size, pimg.rtl)[pimg.page]])
       IN pimg' = IF pimg.page < Len(pimg.pages)
                  THEN [pimg EXCEPT !.written = written, !.page = @ + 1, !.k = 1,
                                    !.img = pimg.pages[pimg.page + 1], !.log = <<>>]
                  ELSE [pimg EXCEPT !.written = written, !.pc = "done"]
    /\ UNCHANGED <<runVars, tracker>>

NextPipe == InsertResize \/ OpenImage \/ ApplyStep \/ SavePage

SpecPipe == InitPipe /\ [][NextPipe]_vars

(***************************************************************************)
(* ImagePipeline.process called on a pipeline as it is: any step list, the *)
(* empty one included, with no resize insertion and no page split.         *)
(***************************************************************************)
InitFold ==
    /\ IdleRun
    /\ tracker = ErrorTracker
    /\ \E cv2 \in BOOLEAN, resolution \in Resolutions :
         \E src \in Sources(cv2), size \in ImageSizes(resolution) :
            pimg = [pc |-> "step", source |-> src.kind, key |-> src.key,
                    pipeline |-> src.pipeline, resolution |-> resolution,
                    size |-> size, rtl |-> FALSE,
                    steps |-> src.pipeline, pages |-> << size >>, page |-> 1, k |-> 1,
                    img |-> size, cropped |-> FALSE, written |-> <<>>,
                    log |-> <<>>]

\* return result
ReturnResult ==
    /\ pimg.pc = "step"
    /\ pimg.k > Len(pimg.steps)
    /\ pimg' = [pimg EXCEPT !.pc = "returned"]
    /\ UNCHANGED <<runVars, tracker>>

NextFold == ApplyStep \/ ReturnResult

SpecFold == InitFold /\ [][NextFold]_vars

(***************************************************************************)
(* The workers of a run and the pipeline they share.  config.get_pipeline  *)
(* returns the same custom_pipeline object to every call (a named preset   *)
(* is built anew by each call and is shared with nobody).  heap holds the  *)
(* step lists: list 0 is custom_pipeline.steps, list w the steps of the    *)
(* ImagePipeline worker w last created.  One action is one loop iteration  *)
(* of a worker; list.append is atomic under the interpreter lock.          *)
(***************************************************************************)
SharedList == 0
Workers == 1 .. MaxWorkers
\* the pipelines a run can share: device-synthesized and custom ones (the
\* AutoRotate variant plays no part in the sharing: OpenCV present)
SharedSteps == {ContrastStep("1.5"), QuantizePalette16}
SharedPipelines ==
    { src.pipeline : src \in { x \in Sources(TRUE) : x.kind = "device" } }
    \cup UNION { [1 .. n -> SharedSteps] : n \in 0 .. MaxSteps }

\* the calls made on the shared pipeline from outside the workers during a
\* run: none, or one of add_step(Quantize), remove_step("Contrast"), clear()
EditCall(op, step, step_name) == [op |-> op, step |-> step, step_name |-> step_name]
EditCalls ==
    { EditCall("add_step", QuantizePalette16, ""),
      EditCall("remove_step", QuantizePalette16, "Contrast"),
      EditCall("clear", QuantizePalette16, "") }
EditScripts == {<<>>} \cup { <<c>> : c \in EditCalls }

InitShare ==
    /\ IdleRun
    /\ tracker = ErrorTracker
    /\ \E resolution \in {KindleResolution}, pl \in SharedPipelines,
          script \in EditScripts :
            pimg = [pc |-> "shared", pipeline |-> pl, resolution |-> resolution,
                    heap |-> [i \in {SharedList} \cup Workers |->
                                IF i = SharedList THEN pl ELSE <<>>],
                    w |-> [i \in Workers |->
                             [pc |-> "idle", pipeline |-> SharedList, new |-> SharedList,
                              k |-> 0, inserted |-> FALSE, detached |-> FALSE,
                              old |-> <<>>]],
                    calls |-> 0, script |-> script, todo |-> script]

\* ImagePipeline.add_step(step), pipeline.py 62-73: list.append, in place
add_step(steps, step) == Append(steps, step)
\* ImagePipeline.remove_step(step_name), pipeline.py 75-86, and
\* ImagePipeline.clear(), 88-96: self.steps is bound to a new list
remove_step(steps, step_name) == SelectSeq(steps, LAMBDA st : st.name # step_name)
clear_steps(steps) == <<>>
\* the list worker w iterates: the list object it took from pipeline.steps
\* when its loop began, which is no longer the pipeline's list once
\* self.steps has been bound to another one
Iterated(w) ==
    IF pimg.w[w].detached THEN pimg.w[w].old ELSE pimg.heap[pimg.w[w].pipeline]
\* self.steps = <new list>: the workers inside their loop keep the old list
Rebind(steps) ==
    [pimg EXCEPT
       !.heap[SharedList] = steps,
       !.todo = Tail(@),
       !.w = [w \in Workers |->
                IF pimg.w[w].pc = "loop" /\ ~pimg.w[w].detached
                   /\ pimg.w[w].pipeline = SharedList
                THEN [pimg.w[w] EXCEPT !.detached = TRUE, !.old = pimg.heap[SharedList]]
                ELSE pimg.w[w]]]
\* no code of the run calls add_step, remove_step or clear on the shared
\* pipeline; they are public, and a caller outside the workers may call
\* them at any moment
AddStep ==
    /\ pimg.todo # <<>>
    /\ Head(pimg.todo).op = "add_step"
    /\ pimg' = [pimg EXCEPT !.heap[SharedList] = add_step(@, Head(pimg.todo).step),
                            !.todo = Tail(@)]
    /\ UNCHANGED <<runVars, tracker>>
RemoveStep ==
    /\ pimg.todo # <<>>
    /\ Head(pimg.todo).op = "remove_step"
    /\ pimg' = Rebind(remove_step(pimg.heap[SharedList], Head(pimg.todo).step_name))
    /\ UNCHANGED <<runVars, tracker>>
ClearSteps ==
    /\ pimg.todo # <<>>
    /\ Head(pimg.todo).op = "clear"
    /\ pimg' = Rebind(clear_steps(pimg.heap[SharedList]))
    /\ UNCHANGED <<runVars, tracker>>

\* pipeline = config.get_pipeline(): the custom pipeline itself
get_pipeline(w) ==
    /\ pimg.w[w].pc = "idle"
    /\ pimg.calls < MaxCalls
    /\ pimg' = [pimg EXCEPT !.w[w].pc = "insert", !.w[w].pipeline = SharedList,
                            !.calls = @ + 1]
    /\ UNCHANGED <<runVars, tracker>>

\* the step list of ImagePipeline(steps): the list passed or, for None, a new one
ImagePipeline_steps(w, steps) == steps
ImagePipeline_new(w, steps) == w

\* new_pipeline = ImagePipeline(); resize_inserted = False; the for
\* statement takes the list pipeline.steps is bound to
NewPipeline(w) ==
    /\ pimg.w[w].pc = "insert"
    /\ pimg' = [pimg EXCEPT !.heap[w] = <<>>,
                            !.w[w].pc = "loop",
                            !.w[w].new = ImagePipeline_new(w, pimg.w[w].pipeline),
                            !.w[w].k = 1, !.w[w].inserted = FALSE,
                            !.w[w].detached = FALSE, !.w[w].old = <<>>]
    /\ UNCHANGED <<runVars, tracker>>

\* for step in pipeline.steps: one iteration
InsertStep(w) ==
    LET me == pimg.w[w]
    IN /\ me.pc = "loop"
       /\ me.k <= Len(Iterated(w))
       /\ LET it == InsertIter(Iterated(w)[me.k], pimg.heap[me.new],
                               me.inserted, pimg.resolution)
          IN pimg' = [pimg EXCEPT !.heap[me.new] = it.acc,
                                  !.w[w].k = @ + 1, !.w[w].inserted = it.inserted]
       /\ UNCHANGED <<runVars, tracker>>

\* the loop is over: if not resize_inserted ...; return new_pipeline
InsertReturn(w) ==
    LET me == pimg.w[w]
    IN /\ me.pc = "loop"
       /\ me.k > Len(Iterated(w))
       /\ pimg' = [pimg EXCEPT !.heap[me.new] =
                                     InsertEnd(pimg.heap[me.new], me.inserted, pimg.resolution),
                               !.w[w].pc = "run",
                               !.w[w].detached = FALSE, !.w[w].old = <<>>]
       /\ UNCHANGED <<runVars, tracker>>

\* pipeline_with_resize.process(...) and save: the lists are only read
RunPipeline(w) ==
    /\ pimg.w[w].pc = "run"
    /\ pimg' = [pimg EXCEPT !.w[w].pc = "idle"]
    /\ UNCHANGED <<runVars, tracker>>

NextShare ==
    \/ AddStep
    \/ RemoveStep
    \/ ClearSteps
    \/ \E w \in Workers :
        \/ get_pipeline(w)
        \/ NewPipeline(w)
        \/ InsertStep(w)
        \/ InsertReturn(w)
        \/ RunPipeline(w)

SpecShare == InitShare /\ [][NextShare]_vars

(***************************************************************************)
(* Device synthesis: PipelinePresets.from_device_spec applied to the       *)
(* DeviceSpec of a registered device (what --device does) or to any other  *)
(* DeviceSpec a caller builds.                                             *)
(***************************************************************************)
DisplayTypes == {"e-ink", "lcd", "oled", "retina"}
ColorGamuts == {"", "sRGB", "DCI-P3"}
BitDepths == {1, 4, 5, 8, 12, 15, 16, 24}
MaxColors == {None, 2, 16, 256, 4096, 16777216}
Ppis == {150, 299, 300, 301, 326}
DeviceSpecs ==
    [display_type : DisplayTypes, color_support : BOOLEAN, color_gamut : ColorGamuts,
     bit_depth : BitDepths, max_colors : MaxColors, ppi : Ppis]

InitDev ==
    /\ IdleRun
    /\ tracker = ErrorTracker
    /\ \E cv2 \in BOOLEAN, device_spec \in DeviceSpecs \cup RegisteredDevices :
          pimg = [pc |-> "spec", device_spec |-> device_spec, cv2 |-> cv2,
                  pipeline |-> <<>>]

\* custom_pipeline = PipelinePresets.from_device_spec(device_spec)
FromDeviceSpec ==
    /\ pimg.pc = "spec"
    /\ pimg' = [pimg EXCEPT !.pc = "built",
                            !.pipeline = from_device_spec(pimg.device_spec, pimg.cv2)]
    /\ UNCHANGED <<runVars, tracker>>

NextDev == FromDeviceSpec

SpecDev == InitDev /\ [][NextDev]_vars

(***************************************************************************)
(* config.py: the construction of a ProcessingConfig from integer          *)
(* arguments, and the run main() starts with it.  A ValueError leaves      *)
(* main(): process_images is not called.                                   *)
(***************************************************************************)
Qualities == -1 .. 11
WorkerCounts == -1 .. 3
Sides == {-1, 0, 1, 1448}
RetryCounts == -2 .. 2
MinQuality == 1
MaxQuality == 9

\* ProcessingConfig.__post_init__: the message of the ValueError raised, ""
\* when none is
__post_init___upto10(c) ==
    IF c.quality < MinQuality \/ c.quality > MaxQuality + 1
    THEN "Quality must be between 1 and 9"
    ELSE IF c.workers < 1 THEN "Workers must be at least 1"
    ELSE IF c.resolution[1] <= 0 \/ c.resolution[2] <= 0
    THEN "Resolution values must be positive"
    ELSE IF c.max_retries < 0 THEN "Max retries must be non-negative"
    ELSE ""
__post_init__(c) ==
    IF c.quality < MinQuality \/ c.quality > MaxQuality
    THEN "Quality must be between 1 and 9"
    ELSE IF c.workers < 1 THEN "Workers must be at least 1"
    ELSE IF c.resolution[1] <= 0 \/ c.resolution[2] <= 0
    THEN "Resolution values must be positive"
    ELSE IF c.max_retries < 0 THEN "Max retries must be non-negative"
    ELSE ""

InitCfg ==
    /\ IdleRun
    /\ tracker = ErrorTracker
    /\ \E quality \in Qualities, workers \in WorkerCounts, max_retries \in RetryCounts :
         \E w \in Sides, h \in Sides :
            pimg = [pc |-> "args",
                    config |-> [quality |-> quality, workers |-> workers,
                                resolution |-> <<w, h>>, max_retries |-> max_retries],
                    error |-> "", constructed |-> 0]

\* config = ProcessingConfig(...)
Construct ==
    /\ pimg.pc = "args"
    /\ LET e == __post_init__(pimg.config)
       IN pimg' = [pimg EXCEPT !.pc = IF e = "" THEN "config" ELSE "ValueError",
                               !.error = e, !.constructed = @ + 1]
    /\ UNCHANGED <<runVars, tracker>>

\* return process_images(config, reporter)
StartRun ==
    /\ pimg.pc = "config"
    /\ pimg' = [pimg EXCEPT !.pc = "run"]
    /\ UNCHANGED <<runVars, tracker>>

NextCfg == Construct \/ StartRun

SpecCfg == InitCfg /\ [][NextCfg]_vars

(***************************************************************************)
(* crop.py: SmartCropStep.process applied to an image, and once more to    *)
(* its result.  bbox is the bounding box getbbox() finds for the content,  *)
(* << >> when it finds none; the content of the result is the content of   *)
(* the image inside the rectangle returned.                                *)
(***************************************************************************)
CropSizes == { <<40, 60>>, <<64, 48>> }
CropMargins == {0, 5, 10}
CropCoords(n) == {0, 3, 10, 11, 25, n - 11, n - 10, n - 3, n}
ContentBoxes(size) ==
    {<<>>} \cup { bb \in CropCoords(size[1]) \X CropCoords(size[2])
                           \X CropCoords(size[1]) \X CropCoords(size[2]) :
                    bb[1] < bb[3] /\ bb[2] < bb[4] }
\* the bounding box of the content as getbbox() finds it in the image cut to box
BBoxIn(bbox, box) ==
    IF bbox = <<>> THEN <<>>
    ELSE LET l == Max(bbox[1], box[1])
             t == Max(bbox[2], box[2])
             r == Min(bbox[3], box[3])
             b == Min(bbox[4], box[4])
         IN IF l < r /\ t < b
            THEN << l - box[1], t - box[2], r - box[1], b - box[2] >>
            ELSE <<>>

InitCrop ==
    /\ IdleRun
    /\ tracker = ErrorTracker
    /\ \E size \in CropSizes, min_margin \in CropMargins :
         \E bbox \in ContentBoxes(size) :
            pimg = [pc |-> "image", size |-> size, min_margin |-> min_margin,
                    bbox |-> bbox, img |-> size, content |-> bbox,
                    applied |-> 0, box |-> <<>>, before |-> size]

\* image = SmartCropStep(min_margin=...).process(image)
CropImage ==
    /\ pimg.pc = "image"
    /\ pimg.applied < 2
    /\ LET box == SmartCropBox(pimg.img, pimg.content, pimg.min_margin)
       IN pimg' = [pimg EXCEPT !.applied = @ + 1,
                               !.box = box,
                               !.before = pimg.img,
                               !.img = << box[3] - box[1], box[4] - box[2] >>,
                               !.content = BBoxIn(pimg.content, box)]
    /\ UNCHANGED <<runVars, tracker>>

\* the image is handed on after one application or after two
CropDone ==
    /\ pimg.pc = "image"
    /\ pimg.applied > 0
    /\ pimg' = [pimg EXCEPT !.pc = "returned"]
    /\ UNCHANGED <<runVars, tracker>>

NextCrop == CropImage \/ CropDone

SpecCrop == InitCrop /\ [][NextCrop]_vars

(***************************************************************************)
(* Properties of process()                                                 *)
(***************************************************************************)
\* the positions of the Resize steps of a step list
ResizeAt(steps) == { j \in 1 .. Len(steps) : steps[j].cls = "ResizeStep" }

\* C9: for a named preset or a device-synthesized pipeline, every image
\* process() has written has exactly the target resolution, and the pipeline
\* it runs has one Resize step, for the target resolution, with no step that
\* can change the size (SmartCrop, another Resize) after it.
C9_ExactResolution ==
    pimg.source \in {"preset", "device"} =>
        /\ \A i \in 1 .. Len(pimg.written) : pimg.written[i].size = pimg.resolution
        /\ pimg.pc # "insert" =>
             \E r \in 1 .. Len(pimg.steps) :
                /\ ResizeAt(pimg.steps) = {r}
                /\ pimg.steps[r] = ResizeStep(pimg.resolution)
                /\ \A j \in (r + 1) .. Len(pimg.steps) :
                      pimg.steps[j].cls # "SmartCropStep"
C9_Witness ==
    /\ pimg.source = "device"
    /\ pimg.pc = "done"
    /\ pimg.cropped
    /\ Len(pimg.written) = 2
    /\ pimg.size[1] % 2 = 1
    /\ \A i \in 1 .. 2 : pimg.written[i].size = pimg.resolution

\* the claim's classes of steps: pre-size by name, existing Resize steps
\* (dropped by the insertion), post-size otherwise
PreSize(step) ==
    \/ Contains(step.name, "Crop")
    \/ Contains(step.name, "Rotate")
    \/ Contains(step.name, "TextEnhance")
Kept(steps) == SelectSeq(steps, LAMBDA st : ~Contains(st.name, "Resize"))
\* the number of leading pre-size steps when the list is pre-size steps
\* followed by post-size steps, -1 for any other list
PreCount(steps) ==
    LET ps == { n \in 0 .. Len(steps) :
                  /\ \A j \in 1 .. n : PreSize(steps[j])
                  /\ \A j \in (n + 1) .. Len(steps) : ~PreSize(steps[j]) }
    IN IF ps = {} THEN -1 ELSE CHOOSE n \in ps : TRUE

\* C10: for a list of pre-size steps followed by post-size steps (existing
\* Resize steps aside, which are dropped), _insert_resize_step returns the
\* pre-size steps, then the Resize step for the target resolution, then the
\* post-size steps: the Resize step is last when there is no post-size step.
C10_ResizePosition ==
    LET kept == Kept(pimg.pipeline)
        n == PreCount(kept)
    IN (pimg.pc # "insert" /\ n >= 0) =>
          pimg.steps = SubSeq(kept, 1, n) \o << ResizeStep(pimg.resolution) >>
                       \o SubSeq(kept, n + 1, Len(kept))
C10_Witness ==
    LET kept == Kept(pimg.pipeline)
        n == PreCount(kept)
    IN /\ pimg.pc = "open"
       /\ n = 3 /\ Len(kept) = 6
       /\ pimg.steps[4] = ResizeStep(pimg.resolution)
       /\ Len(pimg.steps) = 7

\* the steps of a list that are not size-normalizing steps, in list order
Others(steps) == SelectSeq(steps, LAMBDA st : st.cls # "ResizeStep")

\* C11: whatever the input step list (Resize steps included, enabled or not,
\* anywhere), the list _insert_resize_step returns holds exactly one
\* ResizeStep, the one for the requested resolution, and its other steps are
\* the other steps of the input in their original order.
C11_OneResizeOrderKept ==
    pimg.pc # "insert" =>
        /\ Cardinality(ResizeAt(pimg.steps)) = 1
        /\ \A r \in ResizeAt(pimg.steps) : pimg.steps[r] = ResizeStep(pimg.resolution)
        /\ Others(pimg.steps) = Others(pimg.pipeline)
C11_Witness ==
    /\ pimg.pc = "open"
    /\ pimg.source = "custom"
    /\ Cardinality(ResizeAt(pimg.pipeline)) = 2
    /\ pimg.pipeline[1] # pimg.pipeline[2]
    /\ pimg.steps = << ResizeStep(pimg.resolution) >>

\* C12: ImagePipeline.process calls the steps in list order, each once, the
\* first on the image and each later one on the output of the step before
\* it, and returns the last output; an empty pipeline returns its input.
C12_FoldInOrder ==
    /\ Len(pimg.log) <= Len(pimg.steps)
    /\ \A i \in 1 .. Len(pimg.log) :
          /\ pimg.log[i].step = pimg.steps[i]
          /\ pimg.log[i].arg = IF i = 1 THEN pimg.size ELSE pimg.log[i - 1].out
    /\ pimg.pc = "returned" =>
          /\ Len(pimg.log) = Len(pimg.steps)
          /\ pimg.img = IF pimg.steps = <<>> THEN pimg.size
                         ELSE pimg.log[Len(pimg.log)].out
C12_Witness ==
    /\ pimg.pc = "returned"
    /\ Len(pimg.steps) >= 2
    /\ pimg.steps[1].cls = "SmartCropStep"
    /\ pimg.log[1].out # pimg.size
    /\ pimg.log[2].out # pimg.log[1].out

\* C13: in any interleaving of the workers' process() calls, no step of a
\* worker changes the step list of the pipeline they share: as long as no
\* call of add_step, remove_step or clear has been made on the pipeline from
\* outside, the list holds the steps it was built with, in the same order;
\* each call's resize insertion fills a list of its own, which ends as
\* _insert_resize_step of the list the call iterated.
C13_SharedPipelineFrozen ==
    [][ /\ pimg'.todo = pimg.todo =>
              pimg'.heap[SharedList] = pimg.heap[SharedList]
        /\ pimg'.todo = pimg.script => pimg'.heap[SharedList] = pimg.pipeline
        /\ \A w \in Workers :
              /\ pimg'.w[w].pc \in {"loop", "run"} =>
                    pimg'.w[w].new # pimg'.w[w].pipeline
              /\ (pimg.w[w].pc = "loop" /\ pimg'.w[w].pc = "run") =>
                    pimg'.heap[pimg'.w[w].new]
                       = _insert_resize_step(Iterated(w), pimg.resolution) ]_vars
C13_Witness ==
    /\ pimg.calls = MaxCalls
    /\ Len(pimg.pipeline) >= 2
    /\ \E w1 \in Workers, w2 \in Workers :
          /\ w1 # w2
          /\ pimg.w[w1].pc = "run"
          /\ pimg.w[w2].pc = "loop" /\ pimg.w[w2].k = 2
          /\ pimg.heap[w2] # <<>>
    /\ pimg.todo = pimg.script
    /\ pimg.heap[SharedList] = pimg.pipeline

\* the tasks in flight and the finished ones, read off the task states
InFlight == { f \in DOMAIN tasks : tasks[f].starts > 0 /\ tasks[f].pc # "done" }
Finished == { f \in DOMAIN tasks : tasks[f].starts > 0 /\ tasks[f].pc = "done" }

\* C14: the archive step of a directory begins only from the pool phase with
\* every per-file task finished; the loop moves to another WorkItem, and the
\* archive and destination are touched by the archive step, only with no task
\* in flight; a task is in flight only in the pool phase of the current
\* WorkItem and is a task for a file of that WorkItem's directory.
C14_StrictPhases ==
    [][ /\ (mpc' = "archive" /\ mpc # "archive") =>
              (mpc = "pool" /\ Finished = DOMAIN tasks)
        /\ (idx' # idx \/ archives' # archives \/ cur' # cur) => InFlight = {}
        /\ InFlight' # {} =>
              /\ mpc' = "pool"
              /\ idx' = idx /\ cur' = cur
              /\ cur' = items[idx'].name
              /\ InFlight' \subseteq srcDirs'[cur'].files ]_vars
C14_Witness ==
    /\ mpc = "archive"
    /\ idx = 2
    /\ hist.archOutcome[items[1].name] = "ok"
    /\ DOMAIN tasks # {}
    /\ Finished = DOMAIN tasks
    /\ \E f \in DOMAIN tasks : ~tasks[f].ok /\ tasks[f].calls > 1

\* C15: while a directory is processed at most cfg.workers tasks execute at
\* once, no file is taken up twice, the tasks are the image files the
\* directory listing gave, and each has been taken up once when the archive
\* step starts; the order of completion is free.
C15_PoolBound ==
    /\ Cardinality(InFlight) <= cfg.workers
    /\ \A f \in DOMAIN tasks : tasks[f].starts <= 1
    /\ mpc \in {"pool", "archive"} =>
          DOMAIN tasks = { g \in srcDirs[cur].files : IsImage(g) }
    /\ mpc = "archive" => \A f \in DOMAIN tasks : tasks[f].starts = 1
C15_Witness ==
    /\ mpc = "pool"
    /\ cfg.workers = 1
    /\ Cardinality(DOMAIN tasks) = 2
    /\ Cardinality(InFlight) = 1
    /\ Cardinality(Finished) = 1
    /\ srcDirs[cur].files # DOMAIN tasks

\* C16: when src_dir is not a directory the run is either not begun or has
\* returned 2, whatever continue_on_error is: no WorkItem was entered, no
\* task exists, nothing was extracted, written or deleted and no error was
\* recorded.
C16_BadSrcDir ==
    ~src_ok =>
        /\ mpc \in {"begin", "end"}
        /\ mpc = "end" => run = Returned(2)
        /\ mpc = "begin" => run.state = "running"
        /\ idx = 0 /\ cur = "" /\ tasks = NoTasks
        /\ hist = NoHist
        /\ srcDirs = SrcDirsOf(items)
        /\ destDirs = [n \in Names |-> NoDir]
        /\ archives = [n \in Names |-> NoArchive]
        /\ tracker = ErrorTracker
C16_Witness ==
    /\ ~src_ok
    /\ cfg.continue_on_error
    /\ items # <<>>
    /\ mpc = "end"
    /\ run = Returned(2)

\* the quantize steps of a step list, by position
QuantizeAt(steps) == { j \in 1 .. Len(steps) : steps[j].cls = "QuantizeStep" }
\* the distinct grey levels of a palette
Levels(palette) == { palette[i] : i \in 1 .. Len(palette) }

\* C17: the pipeline synthesized for a registered device holds a quantize
\* step exactly when the device's bit_depth is below 16 (and so does the
\* pipeline of any other DeviceSpec).
C17_QuantizeIffLowBitDepth ==
    pimg.pc = "built" =>
        (QuantizeAt(pimg.pipeline) # {} <=> pimg.device_spec.bit_depth < 16)
C17_Witness ==
    /\ pimg.pc = "built"
    /\ pimg.device_spec \in RegisteredDevices
    /\ pimg.device_spec.color_support
    /\ pimg.device_spec.bit_depth = 12
    /\ QuantizeAt(pimg.pipeline) = {7}

\* C18: from_device_spec emits Rotate, Crop, TextEnhance, ColorProfile,
\* Contrast, Sharpen in this order, then Quantize when there is one; the
\* Contrast factor is 1.6 for e-ink mono, 1.3 for e-ink color, 1.2 for the
\* rest; the Sharpen factor is 1.3 (e-ink) or 1.4 (rest) from 300 ppi up, and
\* 1.2 (e-ink) or 1.3 (rest) below.
C18_StepOrderAndFactors ==
    pimg.pc = "built" =>
        LET d == pimg.device_spec
            pl == pimg.pipeline
            is_eink == d.display_type = "e-ink"
        IN /\ Len(pl) \in {6, 7}
           /\ [j \in 1 .. 6 |-> pl[j].cls]
                 = << "AutoRotateStep", "SmartCropStep", "TextEnhanceStep",
                      "ColorProfileStep", "ContrastStep", "SharpenStep" >>
           /\ Len(pl) = 7 => pl[7].cls = "QuantizeStep"
           /\ pl[5].factor = CASE is_eink /\ ~d.color_support -> "1.6"
                                [] is_eink /\ d.color_support -> "1.3"
                                [] OTHER -> "1.2"
           /\ pl[6].factor = CASE d.ppi >= 300 /\ is_eink -> "1.3"
                                [] d.ppi >= 300 /\ ~is_eink -> "1.4"
                                [] d.ppi < 300 /\ is_eink -> "1.2"
                                [] OTHER -> "1.3"
C18_Witness ==
    /\ pimg.pc = "built"
    /\ pimg.device_spec.display_type = "e-ink"
    /\ ~pimg.device_spec.color_support
    /\ pimg.device_spec.ppi = 300
    /\ Len(pimg.pipeline) = 7
    /\ pimg.pipeline[5].factor = "1.6"
    /\ pimg.pipeline[6].factor = "1.3"

\* C19 as stated: for a color device with bit_depth < 16 the quantize step's
\* color count is the device's max_colors; for a mono device its palette
\* has 2^bit_depth grey levels.
C19_QuantizeToDeviceColors ==
    (pimg.pc = "built" /\ pimg.device_spec.bit_depth < 16) =>
        LET d == pimg.device_spec
            q == pimg.pipeline[Len(pimg.pipeline)]
        IN /\ q.cls = "QuantizeStep"
           /\ d.color_support => q.colors = d.max_colors
           /\ ~d.color_support => Cardinality(Levels(q.palette)) = 2 ^ d.bit_depth

\* C19, amended: for a color device with bit_depth < 16 and a max_colors, the
\* quantize step has no palette and its color count is max_colors capped at
\* 256; for a mono device with bit_depth < 16 its palette has 2^bit_depth
\* grey levels capped at 256, and that is its color count.
C19_QuantizeCappedAt256 ==
    (pimg.pc = "built" /\ pimg.device_spec.bit_depth < 16) =>
        LET d == pimg.device_spec
            q == pimg.pipeline[Len(pimg.pipeline)]
            cap(n) == IF n > 256 THEN 256 ELSE n
        IN /\ q.cls = "QuantizeStep"
           /\ (d.color_support /\ d.max_colors # None) =>
                 (q.colors = cap(d.max_colors) /\ q.palette = <<>>)
           /\ ~d.color_support =>
                 /\ Cardinality(Levels(q.palette)) = cap(2 ^ d.bit_depth)
                 /\ q.colors = cap(2 ^ d.bit_depth)
C19_Witness ==
    /\ pimg.pc = "built"
    /\ pimg.device_spec \in RegisteredDevices
    /\ pimg.device_spec.color_support
    /\ pimg.device_spec.max_colors = 4096
    /\ pimg.pipeline[7].colors = 256

\* the valid configurations, as the claim states them
ValidConfig(c) ==
    /\ c.quality \in 1 .. 9
    /\ c.workers >= 1
    /\ c.resolution[1] > 0 /\ c.resolution[2] > 0
    /\ c.max_retries >= 0

\* C20: the construction of a ProcessingConfig succeeds exactly when quality
\* is in 1..9, workers >= 1, both resolution components > 0 and
\* max_retries >= 0, and fails with a ValueError otherwise; it is made once,
\* and a run is started only with a valid configuration.
C20_ValidatedAtConstruction ==
    /\ pimg.pc \in {"config", "run"} => (ValidConfig(pimg.config) /\ pimg.error = "")
    /\ pimg.pc = "ValueError" => (~ValidConfig(pimg.config) /\ pimg.error # "")
    /\ pimg.pc # "args" => pimg.constructed = 1
C20_Witness ==
    /\ pimg.pc = "ValueError"
    /\ pimg.config.quality = 9
    /\ pimg.config.workers = 1
    /\ pimg.config.max_retries = 0
    /\ pimg.config.resolution[1] > 0
    /\ pimg.config.resolution[2] = 0

\* C21: once an archive WorkItem is handled and its archive was re-created,
\* the archive has as many members as images of the source archive were
\* processed successfully, and no member comes from an image that failed.
C21_ArchiveMemberCount ==
    \A i \in 1 .. Len(items) :
        LET n == items[i].name
            m == archives[n].members
        IN ( /\ items[i].kind = "cbz"
             /\ Handled(i)
             /\ hist.archOutcome[n] = "ok" )
           => /\ Cardinality(DOMAIN m) = Cardinality(SuccessfulIn(i))
              /\ \A leaf \in DOMAIN m :
                    \E f \in SuccessfulIn(i) : m[leaf] = FilePath(n, f)

\* C22: an image with width > height is written as two outputs with the
\* suffixes _page_1 and _page_2, page 1 being the columns [width div 2, width)
\* when rtl and [0, width div 2) otherwise, page 2 the other half; an image
\* with width <= height is written once, whole, with no suffix.
C22_SpreadSplit ==
    LET w == pimg.size[1]
        h == pimg.size[2]
        left == << 0, w \div 2 >>
        right == << w \div 2, w >>
        expected == IF w > h
                    THEN << [stem_suffix |-> "_page_1",
                             cols |-> IF pimg.rtl THEN right ELSE left],
                            [stem_suffix |-> "_page_2",
                             cols |-> IF pimg.rtl THEN left ELSE right] >>
                    ELSE << [stem_suffix |-> "", cols |-> << 0, w >>] >>
    IN /\ Len(pimg.written) <= Len(expected)
       /\ \A i \in 1 .. Len(pimg.written) :
             /\ pimg.written[i].stem_suffix = expected[i].stem_suffix
             /\ pimg.written[i].cols = expected[i].cols
       /\ pimg.pc = "done" => Len(pimg.written) = Len(expected)
C22_Witness ==
    /\ pimg.pc = "done"
    /\ pimg.rtl
    /\ pimg.size[1] % 2 = 1
    /\ Len(pimg.written) = 2
    /\ pimg.written[1].cols = << pimg.size[1] \div 2, pimg.size[1] >>
    /\ pimg.written[1].stem_suffix = "_page_1"

\* C23: SmartCropStep returns a cropped image exactly when a bounding box is
\* found and the margins removed on the four sides (the box expanded by
\* min_margin and clamped to the image) sum to more than 2*min_margin;
\* otherwise it returns the image unmodified.
C23_CropIffMarginsRemoved ==
    pimg.applied = 1 =>
        LET w == pimg.size[1]
            h == pimg.size[2]
            bb == pimg.bbox
            m == pimg.min_margin
            left == IF bb[1] - m > 0 THEN bb[1] - m ELSE 0
            top == IF bb[2] - m > 0 THEN bb[2] - m ELSE 0
            right == IF bb[3] + m < w THEN bb[3] + m ELSE w
            bottom == IF bb[4] + m < h THEN bb[4] + m ELSE h
            removed == left + top + (w - right) + (h - bottom)
        IN IF bb # <<>> /\ removed > 2 * m
           THEN pimg.box = << left, top, right, bottom >>
           ELSE pimg.box = << 0, 0, w, h >>

\* C24: a second application of SmartCropStep, with the same min_margin, to
\* the image a first application returned gives an image of the same size.
C24_CropIdempotent ==
    pimg.applied = 2 => pimg.img = pimg.before
C24_Witness ==
    /\ pimg.applied = 2
    /\ pimg.min_margin = 10
    /\ pimg.before # pimg.size
    /\ pimg.img = pimg.before
    /\ pimg.content # <<>>
    /\ pimg.content[1] + pimg.content[2] = 20

\* C25: whatever the configuration and whatever fails, process_images ends
\* by returning a result code 0, 1 or 2: no exception leaves it.
C25_AlwaysReturnsCode ==
    mpc = "end" => /\ run.state = "returned"
                   /\ run.code \in {0, 1, 2}

\* C26: the per-file tasks of one directory write distinct destination
\* paths, so while the pool runs every output a finished task wrote is
\* still the one it wrote: no other task has overwritten it.
C26_NoOverwrite ==
    mpc = "pool" =>
        \A f \in DOMAIN tasks :
            (tasks[f].pc = "done" /\ tasks[f].ok) =>
                \A leaf \in Written(f, "ok") :
                    /\ leaf \in DOMAIN destDirs[cur].files
                    /\ destDirs[cur].files[leaf] = FilePath(cur, f)

\* C27: a directory that was under src_dir before the run is still there,
\* with its files, whatever archive WorkItems the run has handled.
C27_SourceDirectoriesKept ==
    \A n \in Names :
        SrcDirsOf(items)[n].exists =>
            /\ srcDirs[n].exists
            /\ SrcDirsOf(items)[n].files \subseteq srcDirs[n].files

\* C28 as stated: a dry run leaves the directories under src_dir, the
\* directories under dest_dir and the archives as they were and records no
\* error.
FilesystemUntouched ==
    /\ srcDirs = SrcDirsOf(items)
    /\ destDirs = [n \in Names |-> NoDir]
    /\ archives = [n \in Names |-> NoArchive]
C28_DryRunNoEffectNoError ==
    cfg.dry_run => /\ FilesystemUntouched
                   /\ ~has_errors(tracker)
\* C28: a dry run leaves the directories under src_dir, the directories
\* under dest_dir and the archives as they were; the only records it can
\* make are the CRITICAL directory_processing records of directories whose
\* listing failed.
C28_DryRunNoEffect ==
    cfg.dry_run =>
        /\ FilesystemUntouched
        /\ \A k \in 1 .. Len(tracker.errors) :
              /\ tracker.errors[k].severity = CRITICAL
              /\ tracker.errors[k].step = "directory_processing"
              /\ "scan_fail" \in hist.envFail
        /\ hist.envFail \subseteq {"scan_fail"}
C28_Witness ==
    /\ cfg.dry_run
    /\ run.state # "running"
    /\ Len(items) = 2
    /\ items[1].kind = "cbz" /\ items[1].files # {}
    /\ items[2].kind = "dir" /\ items[2].files # {}
    /\ hist.entered = {1, 2}
    /\ ~has_errors(tracker)
    /\ FilesystemUntouched

\* C29: a run whose WorkItems are all directories without any image file
\* records no error when nothing fails in the file system.
C29_NoImageDirNoError ==
    ( /\ Len(items) > 0
      /\ \A i \in 1 .. Len(items) :
            /\ items[i].kind = "dir"
            /\ \A f \in items[i].files : ~IsImage(f)
      /\ hist.envFail = {} )
    => ~has_errors(tracker)

(***************************************************************************)
(* QuantizeStep alone (quantize.py 90-163): a step is constructed from its *)
(* arguments and applied to one image.  installed is the palette handed to *)
(* putpalette, << >> when the step quantizes without a palette.            *)
(***************************************************************************)
\* the arguments of QuantizeStep(...): palettes given explicitly, colour
\* counts and bit depths
GivenPalettes == {<<>>, Palette16, <<0, 255>>, [i \in 1 .. MaxPaletteColors |-> i - 1]}
GivenColors == {None, 2, 16, 300}
GivenBitDepths == 1 .. 8
QuantizeArgs ==
    [palette : GivenPalettes, colors : GivenColors, use_bit_depth : BOOLEAN,
     bit_depth : GivenBitDepths, color_mode : BOOLEAN]

\* QuantizeStep.__init__, lines 120-136
QuantizeStep__init__(a) ==
    IF a.use_bit_depth THEN QuantizeBitDepth(a.bit_depth, a.color_mode)
    ELSE IF a.colors # None THEN QuantizeColors(a.colors)
    ELSE IF a.palette # <<>> THEN QuantizeStep(Len(a.palette), a.palette)
    ELSE QuantizePalette16

\* QuantizeStep.process, lines 148-158: the palette handed to putpalette;
\* palette[:3] is the first entry
process_palette(step) ==
    LET colors == Min(step.colors, MaxPaletteColors)
    IN IF colors < MaxPaletteColors
       THEN step.palette \o [i \in 1 .. (MaxPaletteColors - colors) |-> step.palette[1]]
       ELSE step.palette

InitQuant ==
    /\ IdleRun
    /\ tracker = ErrorTracker
    /\ \E a \in QuantizeArgs :
          pimg = [pc |-> "image", args |-> a, step |-> QuantizeStep__init__(a),
                  installed |-> <<>>, colors |-> 0]

\* step.process(image)
QuantizeImage ==
    /\ pimg.pc = "image"
    /\ pimg' = [pimg EXCEPT
                  !.pc = "quantized",
                  !.installed = IF pimg.step.palette # <<>>
                                THEN process_palette(pimg.step) ELSE <<>>,
                  !.colors = IF pimg.step.palette # <<>>
                             THEN Min(pimg.step.colors, MaxPaletteColors)
                             ELSE pimg.step.colors]
    /\ UNCHANGED <<runVars, tracker>>

NextQuant == QuantizeImage

SpecQuant == InitQuant /\ [][NextQuant]_vars

\* C30: the palette QuantizeStep.process installs has exactly 256 entries,
\* for the default Palette16 and for every palette made from a bit depth
\* from 1 to 8.
C30_InstalledPalette256 ==
    ( /\ pimg.pc = "quantized"
      /\ pimg.step.palette # <<>>
      /\ \/ pimg.args.use_bit_depth
         \/ pimg.step = QuantizePalette16 )
    => Len(pimg.installed) = MaxPaletteColors

====
